---- MODULE Spec2Model ----
(***************************************************************************)
(* Model of the agentlens semantic index: the chunker (search/chunker.rs), *)
(* the snapshot store (search/store/gob.rs) and the indexer                *)
(* (search/indexer.rs).                                                    *)
(*                                                                         *)
(* Text is modelled with TLA+ strings.  A file's content is the sequence   *)
(* of its lines (what str::lines() yields); a chunk's excerpt is those     *)
(* lines joined with "\n".                                                 *)
(***************************************************************************)
EXTENDS Integers, Sequences, FiniteSets, TLC

(***************************************************************************)
(* Small helpers                                                           *)
(***************************************************************************)
Min(a, b) == IF a <= b THEN a ELSE b

\* usize::saturating_sub
SatSub(a, b) == IF a >= b THEN a - b ELSE 0

Range(s) == {s[i] : i \in 1..Len(s)}

\* Lines consisting of white space only: str::trim() leaves nothing of them.
BlankLines == {"", " ", "  "}

\* chunk_lines.join("\n")
RECURSIVE JoinLines(_)
JoinLines(ls) ==
    IF Len(ls) = 0 THEN ""
    ELSE IF Len(ls) = 1 THEN ls[1]
    ELSE ls[1] \o "\n" \o JoinLines(Tail(ls))

\* chunk_content.trim().is_empty() for an excerpt made of the lines ls
TrimIsEmpty(ls) == \A i \in 1..Len(ls) : ls[i] \in BlankLines

\* hash_content: the first 16 hex digits of the SHA-256 of the text.  The
\* digest is a function of the text alone; the model keeps the text it was
\* computed from under a tag, so that any two texts of the model have
\* different digests (no collision among the few texts modelled).
hash_content(text) == <<"sha256/16", text>>

(***************************************************************************)
(* Chunker (search/chunker.rs)                                             *)
(***************************************************************************)
\* the line length chunk_by_window and split_large_chunk assume
AssumedLineLen == 80

SymbolKinds == {"function", "method", "class", "struct", "module", "constant"}

symbol_to_chunk_type(kind) ==
    CASE kind = "function" -> "Function"
      [] kind = "method"   -> "Method"
      [] kind \in {"class", "struct"} -> "Class"
      [] kind = "module"   -> "Module"
      [] OTHER             -> "Block"

\* The inner loop of chunk_by_window and split_large_chunk: starting at the
\* 0-based line index e with cur characters accumulated, take whole lines
\* while end < lines.len() && current_len < max_chars.  Yields the final end.
RECURSIVE Accumulate(_, _, _, _)
Accumulate(lines, e, cur, maxChars) ==
    IF e < Len(lines) /\ cur < maxChars
    THEN Accumulate(lines, e + 1, cur + Len(lines[e + 1]) + 1, maxChars)
    ELSE e

\* ChunkInfo of one window: lines[start..end) of the file, 0-based, half open
WindowChunk(path, lines, start, end) ==
    LET body == JoinLines(SubSeq(lines, start + 1, end))
    IN  [ id         |-> path \o ":block:" \o ToString(start + 1),
          file_path  |-> path,
          start_line |-> start + 1,
          end_line   |-> end,
          content    |-> "File: " \o path \o "\nLines: " \o ToString(start + 1)
                           \o "-" \o ToString(end) \o "\n\n" \o body,
          hash       |-> hash_content(body),
          chunk_type |-> "Block" ]

\* The while loop of chunk_by_window from the 0-based cursor start_line.
RECURSIVE WindowLoop(_, _, _, _, _)
WindowLoop(maxChars, overlapChars, path, lines, start) ==
    LET end     == Accumulate(lines, start, 0, maxChars)
        emitted == IF TrimIsEmpty(SubSeq(lines, start + 1, end))
                   THEN <<>>
                   ELSE <<WindowChunk(path, lines, start, end)>>
        next    == SatSub(end, overlapChars \div AssumedLineLen)
    IN  IF next >= Len(lines) \/ end >= Len(lines)
        THEN emitted
        ELSE emitted \o WindowLoop(maxChars, overlapChars, path, lines, next)

chunk_by_window(maxChars, overlapChars, path, lines) ==
    IF Len(lines) = 0 THEN <<>>
    ELSE WindowLoop(maxChars, overlapChars, path, lines, 0)

\* ChunkInfo of one piece of an oversized symbol: lines[start..end) of the
\* symbol's text, whose first line is line base_line of the file
SplitChunk(path, lines, baseLine, chunkType, start, end) ==
    LET body == JoinLines(SubSeq(lines, start + 1, end))
    IN  [ id         |-> path \o ":split:" \o ToString(baseLine + start),
          file_path  |-> path,
          start_line |-> baseLine + start,
          end_line   |-> baseLine + end - 1,
          content    |-> "File: " \o path \o "\nLines: "
                           \o ToString(baseLine + start) \o "-"
                           \o ToString(baseLine + end - 1) \o "\n\n" \o body,
          hash       |-> hash_content(body),
          chunk_type |-> chunkType ]

\* The while loop of split_large_chunk from the 0-based cursor start.
RECURSIVE SplitLoop(_, _, _, _, _, _, _)
SplitLoop(maxChars, overlapChars, path, lines, baseLine, chunkType, start) ==
    LET end     == Accumulate(lines, start, 0, maxChars)
        emitted == IF TrimIsEmpty(SubSeq(lines, start + 1, end))
                   THEN <<>>
                   ELSE <<SplitChunk(path, lines, baseLine, chunkType, start, end)>>
        next    == SatSub(end, overlapChars \div AssumedLineLen)
    IN  IF next >= Len(lines)
        THEN emitted
        ELSE emitted \o SplitLoop(maxChars, overlapChars, path, lines,
                                  baseLine, chunkType, next)

split_large_chunk(maxChars, overlapChars, path, lines, baseLine, chunkType) ==
    IF Len(lines) = 0 THEN <<>>
    ELSE SplitLoop(maxChars, overlapChars, path, lines, baseLine, chunkType, 0)

\* The body of the for loop of chunk_by_symbols for one qualifying symbol
SymbolChunks(maxChars, overlapChars, path, lines, symbol) ==
    LET start_idx == SatSub(symbol.start, 1)
        end_idx   == Min(symbol.end, Len(lines))
        excerpt   == SubSeq(lines, start_idx + 1, end_idx)
        body      == JoinLines(excerpt)
    IN  IF start_idx >= Len(lines) \/ start_idx >= end_idx THEN <<>>
        ELSE IF TrimIsEmpty(excerpt) THEN <<>>
        ELSE IF Len(body) > maxChars
        THEN split_large_chunk(maxChars, overlapChars, path, excerpt,
                               start_idx + 1, symbol_to_chunk_type(symbol.kind))
        ELSE << [ id         |-> path \o ":" \o symbol.name \o ":"
                                   \o ToString(symbol.start),
                  file_path  |-> path,
                  start_line |-> start_idx + 1,
                  end_line   |-> end_idx,
                  content    |-> "File: " \o path \o "\nSymbol: " \o symbol.name
                                   \o " (" \o symbol.kind \o ")\nLines: "
                                   \o ToString(start_idx + 1) \o "-"
                                   \o ToString(end_idx) \o "\n\n" \o body,
                  hash       |-> hash_content(body),
                  chunk_type |-> symbol_to_chunk_type(symbol.kind) ] >>

\* the for loop of chunk_by_symbols taking symbols of every kind
RECURSIVE SymbolLoopAllKinds(_, _, _, _, _)
SymbolLoopAllKinds(maxChars, overlapChars, path, lines, symbols) ==
    IF Len(symbols) = 0 THEN <<>>
    ELSE SymbolChunks(maxChars, overlapChars, path, lines, Head(symbols))
         \o SymbolLoopAllKinds(maxChars, overlapChars, path, lines, Tail(symbols))

RECURSIVE SymbolLoop(_, _, _, _, _)
SymbolLoop(maxChars, overlapChars, path, lines, symbols) ==
    IF Len(symbols) = 0 THEN <<>>
    ELSE (IF Head(symbols).kind \in {"function", "method", "class", "struct"}
          THEN SymbolChunks(maxChars, overlapChars, path, lines, Head(symbols))
          ELSE <<>>)
         \o SymbolLoop(maxChars, overlapChars, path, lines, Tail(symbols))

\* chunk_by_symbols with no fallback to the window
chunk_by_symbols_without_fallback(maxChars, overlapChars, path, lines, symbols) ==
    SymbolLoop(maxChars, overlapChars, path, lines, symbols)

chunk_by_symbols(maxChars, overlapChars, path, lines, symbols) ==
    LET chunks == SymbolLoop(maxChars, overlapChars, path, lines, symbols)
    IN  IF Len(chunks) = 0
        THEN chunk_by_window(maxChars, overlapChars, path, lines)
        ELSE chunks

\* Whether the while loop of chunk_by_window leaves through its break.  The
\* cursor is all the loop carries from one turn to the next, so a loop
\* that has not left after as many turns as there are lines never does.
RECURSIVE WindowReturnsFrom(_, _, _, _, _)
WindowReturnsFrom(maxChars, overlapChars, lines, start, turns) ==
    LET end  == Accumulate(lines, start, 0, maxChars)
        next == SatSub(end, overlapChars \div AssumedLineLen)
    IN  IF next >= Len(lines) \/ end >= Len(lines) THEN TRUE
        ELSE IF turns = 0 THEN FALSE
        ELSE WindowReturnsFrom(maxChars, overlapChars, lines, next, turns - 1)

WindowReturns(maxChars, overlapChars, lines) ==
    Len(lines) = 0 \/ WindowReturnsFrom(maxChars, overlapChars, lines, 0, Len(lines))

\* the same for the while loop of split_large_chunk
RECURSIVE SplitReturnsFrom(_, _, _, _, _)
SplitReturnsFrom(maxChars, overlapChars, lines, start, turns) ==
    LET end  == Accumulate(lines, start, 0, maxChars)
        next == SatSub(end, overlapChars \div AssumedLineLen)
    IN  IF next >= Len(lines) THEN TRUE
        ELSE IF turns = 0 THEN FALSE
        ELSE SplitReturnsFrom(maxChars, overlapChars, lines, next, turns - 1)

SplitReturns(maxChars, overlapChars, lines) ==
    Len(lines) = 0 \/ SplitReturnsFrom(maxChars, overlapChars, lines, 0, Len(lines))

\* the symbols chunk_by_symbols hands to split_large_chunk
Oversized(maxChars, lines, symbols) ==
    {n \in 1..Len(symbols) :
        LET start_idx == SatSub(symbols[n].start, 1)
            end_idx   == Min(symbols[n].end, Len(lines))
            excerpt   == SubSeq(lines, start_idx + 1, end_idx)
        IN  /\ symbols[n].kind \in {"function", "method", "class", "struct"}
            /\ start_idx < Len(lines)
            /\ start_idx < end_idx
            /\ ~TrimIsEmpty(excerpt)
            /\ Len(JoinLines(excerpt)) > maxChars}

\* whether chunk_by_symbols returns: every split it starts does, and so
\* does the window it falls back to
SymbolsReturns(maxChars, overlapChars, path, lines, symbols) ==
    /\ \A n \in Oversized(maxChars, lines, symbols) :
          SplitReturns(maxChars, overlapChars,
                       SubSeq(lines, SatSub(symbols[n].start, 1) + 1,
                              Min(symbols[n].end, Len(lines))))
    /\ Len(SymbolLoop(maxChars, overlapChars, path, lines, symbols)) = 0
          => WindowReturns(maxChars, overlapChars, lines)

(***************************************************************************)
(* Collaborators outside this repository's search engine: the file tree,   *)
(* the scanner and the symbol extractor.                                   *)
(***************************************************************************)
\* relative paths of the files the model's tree can hold, in scan order
Paths == <<"a.rs", "b.rs">>

PathSet == Range(Paths)

\* What a path of the tree holds: nothing, a file that cannot be read as
\* UTF-8 text, or one of four texts.
FileStates == {"absent", "unreadable", "blank", "code", "prose", "long"}

\* what each path of the model's tree is given to hold
Holds(p) ==
    IF p = "a.rs" THEN {"absent", "blank", "code", "prose"}
    ELSE {"absent", "unreadable", "code"}

Texts == {"blank", "code", "prose", "long"}

\* a file of as many lines as make one chunk more than a batch holds, each
\* line filling a window
LongLines == [i \in 1..33 |-> "abcdefg"]

\* the lines of each text
FileLines(text) ==
    CASE text = "blank" -> <<"  ">>
      [] text = "code"  -> <<"fn f", "x">>
      [] text = "prose" -> <<"ab", "cd", "ef">>
      [] text = "long"  -> LongLines

\* extract_symbols(file, content): one function symbol in the code text
extract_symbols(path, text) ==
    IF text = "code"
    THEN << [kind |-> "function", name |-> "f", start |-> 1, end |-> 2] >>
    ELSE <<>>

\* scan_directory(root, ..): the files present under the root, in tree order
scan_directory(tree) ==
    SelectSeq(Paths, LAMBDA p : tree[p] # "absent")

\* Chunker::new(max_chars, overlap_chars) of the indexer under test
max_chars == 6

overlap_chars == 0

(***************************************************************************)
(* Embedding provider (search/embedder)                                    *)
(***************************************************************************)
\* the vector the provider computes for the i-th text of a request
VectorAt(i) == IF i % 2 = 1 THEN <<1, 0>> ELSE <<0, 1>>

\* What the provider can answer to a request of m texts: an error, or a
\* list of vectors that may be shorter than the request.
ProviderAnswers(m) ==
    {[ok |-> FALSE, vectors |-> <<>>]} \cup
    {[ok |-> TRUE, vectors |-> [i \in 1..k |-> VectorAt(i)]] : k \in 0..m}

\* OllamaEmbedder::embed_batch: no request for an empty batch, otherwise the
\* provider's answer as it came
embed_batch(texts, answer) ==
    IF Len(texts) = 0 THEN [ok |-> TRUE, vectors |-> <<>>] ELSE answer

(***************************************************************************)
(* Store (search/store/gob.rs): operations on IndexData                    *)
(***************************************************************************)
EmptyMap == <<>>

MapPut(f, k, v) == [x \in (DOMAIN f) \cup {k} |-> IF x = k THEN v ELSE f[x]]

MapDrop(f, ks) == [x \in (DOMAIN f) \ ks |-> f[x]]

\* IndexData::default()
EmptyIndex == [chunks |-> EmptyMap, documents |-> EmptyMap]

\* save_chunks keeping the chunk already stored under an identity
RECURSIVE save_chunks_keep_first(_, _)
save_chunks_keep_first(d, cs) ==
    IF Len(cs) = 0 THEN d
    ELSE save_chunks_keep_first(
             IF Head(cs).id \in DOMAIN d.chunks THEN d
             ELSE [d EXCEPT !.chunks = MapPut(d.chunks, Head(cs).id, Head(cs))],
             Tail(cs))

\* GobStore::save_chunks: data.chunks.insert(chunk.id, chunk) for each chunk
\* of the list in turn
RECURSIVE save_chunks(_, _)
save_chunks(d, cs) ==
    IF Len(cs) = 0 THEN d
    ELSE save_chunks([d EXCEPT !.chunks = MapPut(d.chunks, Head(cs).id, Head(cs))],
                     Tail(cs))

\* delete_by_file without its filter: every chunk and Document goes
delete_by_file_everything(d, file_path) == EmptyIndex

\* delete_by_file forgetting the chunks: only the Document goes
delete_by_file_document_only(d, file_path) ==
    [chunks    |-> d.chunks,
     documents |-> MapDrop(d.documents, {file_path})]

\* delete_by_file forgetting the Document: only the chunks go
delete_by_file_chunks_only(d, file_path) ==
    [chunks    |-> MapDrop(d.chunks,
                           {id \in DOMAIN d.chunks : d.chunks[id].file_path = file_path}),
     documents |-> d.documents]

\* delete_by_file looking only at the chunks the Document lists first
delete_by_file_first_listed(d, file_path) ==
    [chunks    |-> IF file_path \in DOMAIN d.documents
                      /\ Len(d.documents[file_path].chunk_ids) > 0
                   THEN MapDrop(d.chunks, {d.documents[file_path].chunk_ids[1]})
                   ELSE d.chunks,
     documents |-> MapDrop(d.documents, {file_path})]

delete_by_file(d, file_path) ==
    LET chunk_ids_to_remove ==
            {id \in DOMAIN d.chunks : d.chunks[id].file_path = file_path}
    IN  [chunks    |-> MapDrop(d.chunks, chunk_ids_to_remove),
         documents |-> MapDrop(d.documents, {file_path})]

\* get_document: Some(doc) or None
get_document(d, file_path) ==
    IF file_path \in DOMAIN d.documents
    THEN [some |-> TRUE, doc |-> d.documents[file_path]]
    ELSE [some |-> FALSE]

save_document(d, doc) ==
    [d EXCEPT !.documents = MapPut(d.documents, doc.path, doc)]

\* list_documents: the keys of the documents map
list_documents(d) == DOMAIN d.documents

\* Scores are kept as whole numbers of 1/ScoreScale; the finite norms of
\* the model's vectors are 0, 1 and 5, so every finite cosine is such a
\* number.
ScoreScale == 25

\* An f32 is a whole number of magnitude below Infinity, one of the two
\* infinities, or NaN.  A number too large for f32 is read as infinity.
Infinity == 1000

NaN == 2 * Infinity

\* the f32 nearest to an exactly computed number
RoundF32(x) ==
    IF x >= Infinity THEN Infinity ELSE IF x <= -Infinity THEN -Infinity ELSE x

\* x * y in f32
F32Mul(x, y) ==
    IF x = NaN \/ y = NaN THEN NaN
    ELSE IF (x \in {Infinity, -Infinity} \/ y \in {Infinity, -Infinity})
            /\ (x = 0 \/ y = 0) THEN NaN
    ELSE RoundF32(x * y)

\* x + y in f32
F32Add(x, y) ==
    IF x = NaN \/ y = NaN THEN NaN
    ELSE IF x \in {Infinity, -Infinity}
         THEN IF y = -x THEN NaN ELSE x
    ELSE IF y \in {Infinity, -Infinity} THEN y
    ELSE RoundF32(x + y)

\* x / y in f32 for y >= 0, as a whole number of 1/ScoreScale
F32Div(x, y) ==
    IF x = NaN \/ y = NaN THEN NaN
    ELSE IF y = Infinity
         THEN IF x \in {Infinity, -Infinity} THEN NaN ELSE 0
    ELSE IF x \in {Infinity, -Infinity} THEN x
    ELSE IF y = 0
         THEN IF x = 0 THEN NaN ELSE IF x > 0 THEN Infinity ELSE -Infinity
    ELSE (x * ScoreScale) \div y

\* f32::sqrt, for the squares the model's vectors have as norms
Sqrt(n) ==
    IF n \in {Infinity, NaN} THEN n ELSE CHOOSE r \in 0..n : r * r = n

RECURSIVE SumOf(_)
SumOf(xs) == IF Len(xs) = 0 THEN 0 ELSE Head(xs) + SumOf(Tail(xs))

\* acc += x for each x of xs in turn
RECURSIVE F32SumFrom(_, _)
F32SumFrom(acc, xs) ==
    IF Len(xs) = 0 THEN acc ELSE F32SumFrom(F32Add(acc, Head(xs)), Tail(xs))

\* cosine_similarity
cosine_similarity(a, b) ==
    IF Len(a) # Len(b) \/ Len(a) = 0 THEN 0
    ELSE LET dot    == F32SumFrom(0, [i \in 1..Len(a) |-> F32Mul(a[i], b[i])])
             norm_a == F32SumFrom(0, [i \in 1..Len(a) |-> F32Mul(a[i], a[i])])
             norm_b == F32SumFrom(0, [i \in 1..Len(b) |-> F32Mul(b[i], b[i])])
             denom  == F32Mul(Sqrt(norm_a), Sqrt(norm_b))
         IN  IF denom = 0 THEN 0 ELSE F32Div(dot, denom)

\* SearchResult::new
SearchResult(chunk, score) == [chunk |-> chunk, score |-> score]

\* slice::sort_by with b.score.partial_cmp(&a.score): a stable sort by
\* descending score; each result goes behind those that score no less
RECURSIVE SortByScoreFrom(_, _)
SortByScoreFrom(sorted, rest) ==
    IF Len(rest) = 0 THEN sorted
    ELSE LET r    == Head(rest)
             keep == Cardinality({i \in 1..Len(sorted) : sorted[i].score >= r.score})
         IN  SortByScoreFrom(SubSeq(sorted, 1, keep) \o <<r>>
                             \o SubSeq(sorted, keep + 1, Len(sorted)),
                             Tail(rest))

SortByScore(results) == SortByScoreFrom(<<>>, results)

\* Vec::truncate
Truncate(xs, limit) == SubSeq(xs, 1, Min(limit, Len(xs)))

\* the orders in which a HashMap can hand out the keys in S
Orders(S) ==
    {o \in [1..Cardinality(S) -> S] : \A i, j \in 1..Cardinality(S) : o[i] = o[j] => i = j}

\* search leaving the results in the order the map handed them out
search_unsorted(d, query_vector, limit, order) ==
    Truncate([i \in 1..Len(order) |->
                 SearchResult(d.chunks[order[i]],
                              cosine_similarity(query_vector, d.chunks[order[i]].vector))],
             limit)

\* GobStore::search, the chunk map iterated in `order`
search(d, query_vector, limit, order) ==
    Truncate(SortByScore([i \in 1..Len(order) |->
                 SearchResult(d.chunks[order[i]],
                              cosine_similarity(query_vector, d.chunks[order[i]].vector))]),
             limit)

\* get_all_chunks: the values of the chunk map, in the order it hands them out
get_all_chunks(d, order) == [i \in 1..Len(order) |-> d.chunks[order[i]]]

\* an f32 written by serde_json: a number, or null if it is not finite
JsonOfF32(x) ==
    IF x = Infinity THEN [null |-> TRUE, number |-> 0]
    ELSE [null |-> FALSE, number |-> x]

\* an f32 read by serde_json from a number
F32OfJson(j) == j.number

\* the chunk map as JSON and back, the vectors number by number
JsonOfChunks(cs) ==
    [id \in DOMAIN cs |->
        [cs[id] EXCEPT !.vector = [i \in DOMAIN cs[id].vector |-> JsonOfF32(cs[id].vector[i])]]]

ChunksOfJson(js) ==
    [id \in DOMAIN js |->
        [js[id] EXCEPT !.vector = [i \in DOMAIN js[id].vector |-> F32OfJson(js[id].vector[i])]]]

\* serde_json::to_vec(&IndexData): a JSON object of two members, written
\* to the file as two consecutive parts
Serialize(d) ==
    << [member |-> "chunks", value |-> JsonOfChunks(d.chunks)],
       [member |-> "documents", value |-> d.documents] >>

\* serde_json::from_slice::<IndexData>: both members must be there, and
\* every component of every vector must be a number
Parses(bytes) ==
    /\ Len(bytes) = 2
    /\ bytes[1].member = "chunks"
    /\ bytes[2].member = "documents"
    /\ \A id \in DOMAIN bytes[1].value :
          \A i \in DOMAIN bytes[1].value[id].vector : ~bytes[1].value[id].vector[i].null

Deserialize(bytes) ==
    [chunks |-> ChunksOfJson(bytes[1].value), documents |-> bytes[2].value]

\* a file that does not exist, and bytes that are no snapshot
NoFile == [exists |-> FALSE, bytes |-> <<>>]

FileOf(bytes) == [exists |-> TRUE, bytes |-> bytes]

Garbage == << [member |-> "garbage", value |-> EmptyMap] >>

\* load taking a file that does not parse for a missing one
load_read_malformed_as_missing(f) ==
    IF ~f.exists \/ ~Parses(f.bytes)
    THEN [ret |-> "ok", install |-> FALSE, loaded |-> EmptyIndex]
    ELSE [ret |-> "ok", install |-> TRUE, loaded |-> Deserialize(f.bytes)]

\* GobStore::load up to the point where it takes the lock, on the canonical
\* file f: it returns at once if there is no file or the file does not
\* parse, and otherwise goes on to install what it read
load_read(f) ==
    IF ~f.exists THEN [ret |-> "ok", install |-> FALSE, loaded |-> EmptyIndex]
    ELSE IF ~Parses(f.bytes) THEN [ret |-> "err", install |-> FALSE, loaded |-> EmptyIndex]
    ELSE [ret |-> "ok", install |-> TRUE, loaded |-> Deserialize(f.bytes)]

\* GobStore::load under the write lock: *data = loaded
install(d, loaded) == loaded

\* GobStore::load run from start to end with d in memory: the outcome and
\* the index in memory afterwards
load(d, f) ==
    LET read == load_read(f)
    IN  [ok |-> read.ret = "ok",
         data |-> IF read.install THEN install(d, read.loaded) ELSE d]

(***************************************************************************)
(* Indexer (search/indexer.rs)                                             *)
(***************************************************************************)
BATCH_SIZE == 32

NumBatches(n) == (n + BATCH_SIZE - 1) \div BATCH_SIZE

\* the b-th slice of chunk_infos.chunks(BATCH_SIZE), b from 1
Batch(infos, b) ==
    SubSeq(infos, (b - 1) * BATCH_SIZE + 1, Min(b * BATCH_SIZE, Len(infos)))

\* the embedder answers an indexer can meet for n chunk infos, one per batch
ProviderPlans(n) ==
    IF n = 0 THEN {<<>>}
    ELSE {<<a>> : a \in ProviderAnswers(Min(n, BATCH_SIZE))}

\* batch.iter().zip(embeddings): one Chunk per pair
ZipChunks(batch, vectors, time) ==
    [i \in 1..Min(Len(batch), Len(vectors)) |->
        [ id         |-> batch[i].id,
          file_path  |-> batch[i].file_path,
          start_line |-> batch[i].start_line,
          end_line   |-> batch[i].end_line,
          content    |-> batch[i].content,
          vector     |-> vectors[i],
          hash       |-> batch[i].hash,
          updated_at |-> time,
          chunk_type |-> batch[i].chunk_type ]]

\* embed_chunks returning the chunks of the batches embedded before the
\* batch that failed
RECURSIVE EmbedFromKeepingBatches(_, _, _, _)
EmbedFromKeepingBatches(infos, plan, b, time) ==
    IF b > NumBatches(Len(infos)) THEN [ok |-> TRUE, chunks |-> <<>>, calls |-> 0]
    ELSE LET batch  == Batch(infos, b)
             texts  == [i \in 1..Len(batch) |-> batch[i].content]
             answer == embed_batch(texts, plan[b])
         IN  IF ~answer.ok THEN [ok |-> b > 1, chunks |-> <<>>, calls |-> 1]
             ELSE LET rest == EmbedFromKeepingBatches(infos, plan, b + 1, time)
                  IN  [ok     |-> rest.ok,
                       chunks |-> ZipChunks(batch, answer.vectors, time) \o rest.chunks,
                       calls  |-> 1 + rest.calls]

\* Indexer::embed_chunks from batch b on: Ok(chunks) or the first error,
\* and the number of embed_batch calls made
RECURSIVE EmbedFrom(_, _, _, _)
EmbedFrom(infos, plan, b, time) ==
    IF b > NumBatches(Len(infos)) THEN [ok |-> TRUE, chunks |-> <<>>, calls |-> 0]
    ELSE LET batch  == Batch(infos, b)
             texts  == [i \in 1..Len(batch) |-> batch[i].content]
             answer == embed_batch(texts, plan[b])
         IN  IF ~answer.ok THEN [ok |-> FALSE, chunks |-> <<>>, calls |-> 1]
             ELSE LET rest == EmbedFrom(infos, plan, b + 1, time)
                  IN  [ok     |-> rest.ok,
                       chunks |-> IF rest.ok
                                  THEN ZipChunks(batch, answer.vectors, time) \o rest.chunks
                                  ELSE <<>>,
                       calls  |-> 1 + rest.calls]

embed_chunks(infos, plan, time) == EmbedFrom(infos, plan, 1, time)

\* the chunk infos index_file derives from what path p holds
ChunkInfosOf(p, text) ==
    chunk_by_symbols(max_chars, overlap_chars, p, FileLines(text),
                     extract_symbols(p, text))

ContentHash(text) == hash_content(JoinLines(FileLines(text)))

\* the unchanged test comparing nothing: every file counts as changed
unchanged_never(d, p, content_hash) == FALSE

\* the test of index_file that a file is unchanged: a Document is stored for
\* the path and its hash is the hash of the content read
unchanged(d, p, content_hash) ==
    LET found == get_document(d, p)
    IN  found.some /\ found.doc.hash = content_hash

\* Indexer::index_file on path p holding `held`, with index d in memory,
\* the provider answering by `plan`, at time `time`.
\*   ret   "err" | "skipped" (Ok(None)) | "indexed" (Ok(Some(count)))
\*   embeds, writes: the embedder calls and mutating store calls made
index_file(d, p, held, force, plan, time) ==
    IF held \notin Texts
    THEN [data |-> d, ret |-> "err", cause |-> "read", count |-> 0,
          embeds |-> 0, writes |-> 0]
    ELSE
    LET content_hash == ContentHash(held)
    IN  IF ~force /\ unchanged(d, p, content_hash)
        THEN [data |-> d, ret |-> "skipped", cause |-> "", count |-> 0,
              embeds |-> 0, writes |-> 0]
        ELSE
        LET d1          == delete_by_file(d, p)
            chunk_infos == ChunkInfosOf(p, held)
        IN  IF Len(chunk_infos) = 0
            THEN [data |-> d1, ret |-> "indexed", cause |-> "", count |-> 0,
                  embeds |-> 0, writes |-> 1]
            ELSE
            LET embedded == embed_chunks(chunk_infos, plan, time)
            IN  IF ~embedded.ok
                THEN [data |-> d1, ret |-> "err", cause |-> "embed", count |-> 0,
                      embeds |-> embedded.calls, writes |-> 1]
                ELSE
                LET chunks == embedded.chunks
                    doc    == [ path      |-> p,
                                hash      |-> content_hash,
                                mod_time  |-> time,
                                chunk_ids |-> [i \in 1..Len(chunks) |-> chunks[i].id] ]
                IN  [data   |-> save_document(save_chunks(d1, chunks), doc),
                     ret    |-> "indexed", cause |-> "", count |-> Len(chunks),
                     embeds |-> embedded.calls, writes |-> 3]

(***************************************************************************)
(* The two files of a store and the file system calls made on them.  A     *)
(* file is a sequence of parts; a part never written inside a file is a    *)
(* hole.                                                                   *)
(***************************************************************************)
FilePaths == {"canon", "tmp"}

\* GobStore.path
canonical_path == "canon"

\* atomic_write writing the snapshot straight to the canonical path
temp_path_is_canonical == "canon"

\* self.path.with_extension("tmp")
temp_path == "tmp"

Hole == [member |-> "hole", value |-> EmptyMap]

\* File::create: the file is created, or truncated if it is there
fs_create(fs, path) == [fs EXCEPT ![path] = FileOf(<<>>)]

\* write(2) of one part at offset off of the bytes of a file
WriteAt(bytes, off, part) ==
    [i \in 1..(IF Len(bytes) > off + 1 THEN Len(bytes) ELSE off + 1) |->
        IF i = off + 1 THEN part
        ELSE IF i <= Len(bytes) THEN bytes[i]
        ELSE Hole]

fs_write(fs, path, off, part) ==
    [fs EXCEPT ![path] = FileOf(WriteAt(fs[path].bytes, off, part))]

\* write_all from offset off on
RECURSIVE fs_write_all(_, _, _, _)
fs_write_all(fs, path, off, json) ==
    IF off >= Len(json) THEN fs
    ELSE fs_write_all(fs_write(fs, path, off, json[off + 1]), path, off + 1, json)

\* rename(2): the file at `from` takes the place of whatever is at `to`
fs_rename(fs, from, to) ==
    IF from = to THEN fs
    ELSE [fs EXCEPT ![to] = fs[from], ![from] = NoFile]

\* GobStore::atomic_write of index d, run from start to end with no other
\* file system call in between: io_ok says whether the file system lets the
\* temp file be created.  Yields the outcome and the files afterwards.
atomic_write(d, fs, io_ok) ==
    IF ~io_ok THEN [ok |-> FALSE, files |-> fs]
    ELSE LET json    == Serialize(d)
             created == fs_create(fs, temp_path)
             written == fs_write_all(created, temp_path, 0, json)
         IN  [ok |-> TRUE, files |-> fs_rename(written, temp_path, canonical_path)]

\* GobStore::persist
persist(d, fs, io_ok) == atomic_write(d, fs, io_ok)

\* unlink(2)
fs_remove(fs, path) == [fs EXCEPT ![path] = NoFile]

\* clear emptying the memory and leaving the snapshot file
clear_memory_only(d, fs, io_ok) == [ok |-> TRUE, data |-> EmptyIndex, files |-> fs]

\* GobStore::clear: both maps are emptied, then the canonical file is
\* removed if it exists; io_ok says whether the file system lets it be
\* removed
clear(d, fs, io_ok) ==
    IF ~fs[canonical_path].exists
    THEN [ok |-> TRUE, data |-> EmptyIndex, files |-> fs]
    ELSE IF ~io_ok THEN [ok |-> FALSE, data |-> EmptyIndex, files |-> fs]
    ELSE [ok |-> TRUE, data |-> EmptyIndex, files |-> fs_remove(fs, canonical_path)]

\* index_all going on after a failed load
index_all_begin_ignoring_load(d, fs, tree_now) ==
    [ok |-> TRUE, data |-> load(d, fs[canonical_path]).data,
     files |-> scan_directory(tree_now)]

\* index_all before its loop: the files scanned and the store loaded
index_all_begin(d, fs, tree_now) ==
    LET scanned == scan_directory(tree_now)
        loaded  == load(d, fs[canonical_path])
    IN  [ok |-> loaded.ok, data |-> loaded.data, files |-> scanned]

\* the loop of index_all giving up at the first file that fails
index_all_turn_abort(loop, p, r) ==
    [loop EXCEPT
        !.i = IF r.ret = "err" THEN Len(loop.files) + 1 ELSE @ + 1,
        !.files_processed = IF r.ret = "indexed" THEN @ + 1 ELSE @,
        !.chunks_created  = IF r.ret = "indexed" THEN @ + r.count ELSE @,
        !.files_skipped   = IF r.ret = "skipped" THEN @ + 1 ELSE @,
        !.errors = IF r.ret = "err" THEN Append(@, p \o ": " \o r.cause) ELSE @]

\* one turn of the loop of index_all, after index_file returned r for the
\* file at path p: the counts, the errors and the cursor
index_all_turn(loop, p, r) ==
    [loop EXCEPT
        !.i = @ + 1,
        !.files_processed = IF r.ret = "indexed" THEN @ + 1 ELSE @,
        !.chunks_created  = IF r.ret = "indexed" THEN @ + r.count ELSE @,
        !.files_skipped   = IF r.ret = "skipped" THEN @ + 1 ELSE @,
        !.errors = IF r.ret = "err" THEN Append(@, p \o ": " \o r.cause) ELSE @]

\* the loop of prune_deleted over the indexed paths in `gone`
RECURSIVE DeleteAll(_, _)
DeleteAll(d, gone) ==
    IF gone = {} THEN d
    ELSE LET p == CHOOSE q \in gone : TRUE
         IN  DeleteAll(delete_by_file(d, p), gone \ {p})

\* prune_deleted persisting whether or not anything was pruned
prune_deleted_always_persists(d, fs, tree_now, io_ok) ==
    LET existing_paths == Range(scan_directory(tree_now))
        gone    == {p \in list_documents(d) : p \notin existing_paths}
        d1      == DeleteAll(d, gone)
        written == persist(d1, fs, io_ok)
    IN  [data |-> d1, files |-> written.files, ok |-> written.ok,
         pruned |-> Cardinality(gone), persists |-> 1]

\* Indexer::prune_deleted with the tree as scanned: the index afterwards,
\* the number of paths pruned and the number of persist calls
prune_deleted(d, fs, tree_now, io_ok) ==
    LET existing_paths == Range(scan_directory(tree_now))
        gone    == {p \in list_documents(d) : p \notin existing_paths}
        pruned  == Cardinality(gone)
        d1      == DeleteAll(d, gone)
        written == IF pruned > 0 THEN persist(d1, fs, io_ok)
                   ELSE [ok |-> TRUE, files |-> fs]
    IN  [data |-> d1, files |-> written.files, ok |-> written.ok,
         pruned |-> pruned, persists |-> IF pruned > 0 THEN 1 ELSE 0]

(***************************************************************************)
(* State                                                                   *)
(***************************************************************************)
\* Utc::now(): the wall clock readings a call can meet
Times == {0}

VARIABLES
    tree,     \* what each path of the file tree holds
    data,     \* GobStore.data: the IndexData in memory
    files,    \* the canonical snapshot file and the temp file
    pc,       \* "idle", or "index_all" while a batch is between two files
    run,      \* the locals of the index_all in flight
    last,     \* the call that completed last, with what it returned
    settled,  \* TRUE while nothing happened since an index_all(force=false)
              \* that returned without any error
    live,     \* the threads that call the store directly
    thr,      \* where each of them stands in its call
    readers,  \* the threads holding GobStore.data's lock for reading
    committed,\* the index the last completed persist wrote
    crashed   \* TRUE from a crash amid a persist until the store changes

indexerVars == <<tree, pc, run, settled>>

threadVars == <<live, thr, readers, committed, crashed>>

vars == <<tree, data, files, pc, run, last, settled,
          live, thr, readers, committed, crashed>>

Threads == {1, 2}

NoCall == [held |-> "", force |-> FALSE, plan |-> <<>>, chunks |-> <<>>,
           ret |-> "", cause |-> "", count |-> 0]

Idle == [pc |-> "idle", at |-> "closed", off |-> 0, buf |-> EmptyIndex,
         path |-> "", op |-> "", call |-> NoCall]

NoFiles == [path \in FilePaths |-> NoFile]

NoRun == [files |-> <<>>, i |-> 0, force |-> FALSE, rerun |-> FALSE,
          files_processed |-> 0, chunks_created |-> 0, files_skipped |-> 0,
          errors |-> <<>>, trace |-> <<>>, outcomes |-> <<>>]

Env == [op |-> "env"]

Init ==
    /\ tree = [p \in PathSet |-> "absent"]
    /\ data = EmptyIndex
    /\ files = NoFiles
    /\ pc = "idle"
    /\ run = NoRun
    /\ last = Env
    /\ settled = FALSE
    /\ live = {}
    /\ thr = [t \in Threads |-> Idle]
    /\ readers = {}
    /\ committed = [some |-> FALSE, data |-> EmptyIndex]
    /\ crashed = FALSE

(***************************************************************************)
(* The environment: files are written, changed and removed; time passes;  *)
(* the snapshot file is damaged.                                           *)
(***************************************************************************)
EditFile(p, s) ==
    /\ pc = "idle"
    /\ tree[p] # s
    /\ tree' = [tree EXCEPT ![p] = s]
    /\ last' = Env
    /\ settled' = FALSE
    /\ UNCHANGED <<data, files, pc, run, threadVars>>

CorruptSnapshot ==
    /\ pc = "idle"
    /\ files[canonical_path].exists
    /\ files[canonical_path] # FileOf(Garbage)
    /\ files' = [files EXCEPT ![canonical_path] = FileOf(Garbage)]
    /\ last' = Env
    /\ settled' = FALSE
    /\ UNCHANGED <<tree, data, pc, run, threadVars>>

(***************************************************************************)
(* Calls                                                                   *)
(***************************************************************************)
\* how the index stands to what the path holds before index_file runs
DocState(d, p, held) ==
    IF p \notin DOMAIN d.documents THEN "none"
    ELSE IF held \in Texts /\ d.documents[p].hash = ContentHash(held) THEN "same"
    ELSE "stale"

\* the record kept of an index_file call with result r
FileCall(d, p, held, force, plan, r, time) ==
    [op |-> "index_file", path |-> p, held |-> held, force |-> force,
     ret |-> r.ret, cause |-> r.cause, count |-> r.count,
     embeds |-> r.embeds, writes |-> r.writes,
     plan |-> IF r.embeds > 0 THEN plan ELSE <<>>,
     time |-> IF r.ret = "indexed" /\ r.count > 0 THEN time ELSE 0,
     had |-> DocState(d, p, held)]

PlansOf(p, held) ==
    ProviderPlans(IF held \in Texts THEN Len(ChunkInfosOf(p, held)) ELSE 0)

\* a single index_file call on a file of the tree
IndexFileCall(p, force, plan, time) ==
    /\ pc = "idle"
    /\ tree[p] # "absent"
    /\ LET r == index_file(data, p, tree[p], force, plan, time)
       IN  /\ data' = r.data
           /\ last' = FileCall(data, p, tree[p], force, plan, r, time)
    /\ settled' = FALSE
    /\ UNCHANGED <<tree, files, pc, run, threadVars>>

\* index_all up to its loop: scan, load
IndexAllStart(force) ==
    /\ pc = "idle"
    /\ LET begun == index_all_begin(data, files, tree)
           start == [NoRun EXCEPT !.files = begun.files, !.i = 1, !.force = force,
                                  !.rerun = settled, !.trace = <<"load">>]
       IN  IF begun.ok
           THEN /\ data' = begun.data
                /\ pc' = "index_all"
                /\ run' = start
                /\ last' = [op |-> "index_all_begun"]
                /\ settled' = FALSE
           ELSE /\ last' = [op |-> "index_all", ret |-> "err", force |-> force,
                            run |-> start]
                /\ settled' = FALSE
                /\ UNCHANGED <<data, pc, run>>
    /\ UNCHANGED <<tree, files, threadVars>>

\* one turn of the loop of index_all: index_file on the next file
IndexAllStep ==
    /\ pc = "index_all"
    /\ run.i <= Len(run.files)
    /\ \E plan \in PlansOf(run.files[run.i], tree[run.files[run.i]]), time \in Times :
       LET p == run.files[run.i]
           r == index_file(data, p, tree[p], run.force, plan, time)
       IN  /\ data' = r.data
           /\ last' = FileCall(data, p, tree[p], run.force, plan, r, time)
           /\ run' = [index_all_turn(run, p, r) EXCEPT
                          !.trace = Append(@, "index_file " \o p),
                          !.outcomes = Append(@, r.ret)]
    /\ UNCHANGED <<tree, files, pc, settled, threadVars>>

\* index_all after its loop: persist, return
IndexAllFinish(io_ok) ==
    /\ pc = "index_all"
    /\ run.i > Len(run.files)
    /\ LET written == persist(data, files, io_ok)
           done    == [run EXCEPT !.trace = Append(@, "persist")]
       IN  /\ files' = written.files
           /\ last' = [op |-> "index_all", ret |-> IF written.ok THEN "ok" ELSE "err",
                       force |-> run.force, run |-> done]
           /\ settled' = (written.ok /\ ~run.force /\ Len(run.errors) = 0)
    /\ pc' = "idle"
    /\ run' = NoRun
    /\ UNCHANGED <<tree, data, threadVars>>

PruneDeletedCall(io_ok) ==
    /\ pc = "idle"
    /\ LET r == prune_deleted(data, files, tree, io_ok)
       IN  /\ data' = r.data
           /\ files' = r.files
           /\ last' = [op |-> "prune_deleted", ret |-> IF r.ok THEN "ok" ELSE "err",
                       pruned |-> r.pruned, persists |-> r.persists]
    /\ settled' = FALSE
    /\ UNCHANGED <<tree, pc, run, threadVars>>

Next ==
    \/ \E p \in PathSet : \E s \in Holds(p) : EditFile(p, s)
    \/ CorruptSnapshot
    \/ \E p \in PathSet, force \in BOOLEAN :
          \E plan \in PlansOf(p, tree[p]), time \in Times :
             IndexFileCall(p, force, plan, time)
    \/ \E force \in BOOLEAN : IndexAllStart(force)
    \/ IndexAllStep
    \/ \E io_ok \in BOOLEAN : IndexAllFinish(io_ok)
    \/ \E io_ok \in BOOLEAN : PruneDeletedCall(io_ok)

Spec == Init /\ [][Next]_vars

(***************************************************************************)
(* cosine_similarity called on two vectors                                 *)
(***************************************************************************)
\* an f32 whose square is too large for f32
Huge == 100

CosineVectors ==
    { <<>>, <<0>>, <<1>>, <<-1>>, <<Huge>>,
      <<0, 0>>, <<1, 0>>, <<0, 1>>, <<-1, 0>>, <<3, 4>>, <<4, 3>>, <<Huge, 0>>,
      <<1, 0, 0>> }

\* a call of cosine_similarity is about to be made
InitCosine ==
    /\ tree = [p \in PathSet |-> "absent"]
    /\ data = EmptyIndex
    /\ files = NoFiles
    /\ pc = "idle"
    /\ run = NoRun
    /\ last \in {[op |-> "cosine_call", a |-> a, b |-> b] : a, b \in CosineVectors}
    /\ settled = FALSE
    /\ live = {}
    /\ thr = [t \in Threads |-> Idle]
    /\ readers = {}
    /\ committed = [some |-> FALSE, data |-> EmptyIndex]
    /\ crashed = FALSE

CosineCall ==
    /\ last.op = "cosine_call"
    /\ last' = [op |-> "cosine", a |-> last.a, b |-> last.b,
                score |-> cosine_similarity(last.a, last.b)]
    /\ UNCHANGED <<data, files, indexerVars, threadVars>>

NextCosine == CosineCall

SpecCosine == InitCosine /\ [][NextCosine]_vars

(***************************************************************************)
(* The indexer with a provider whose vectors need not have the length the  *)
(* embedder was configured with.                                           *)
(***************************************************************************)
\* OllamaEmbedder::dimensions: the configured number, never compared with
\* what the provider sends
dimensions == 2

\* the embeddings a provider can send for one text
ProviderVectors == {<<1>>, <<1, 0>>, <<0, 1>>, <<1, 0, 0>>}

\* a provider answering m texts with m vectors of any of these lengths
AnyLengthAnswers(m) ==
    {[ok |-> FALSE, vectors |-> <<>>]} \cup
    {[ok |-> TRUE, vectors |-> vs] : vs \in [1..m -> ProviderVectors]}

AnyLengthPlansOf(p, held) ==
    LET n == IF held \in Texts THEN Len(ChunkInfosOf(p, held)) ELSE 0
    IN  IF n = 0 THEN {<<>>}
        ELSE {<<a>> : a \in AnyLengthAnswers(Min(n, BATCH_SIZE))}

NextDims ==
    \/ \E p \in PathSet : \E s \in Holds(p) : EditFile(p, s)
    \/ \E p \in PathSet, force \in BOOLEAN :
          \E plan \in AnyLengthPlansOf(p, tree[p]), time \in Times :
             IndexFileCall(p, force, plan, time)

SpecDims == Init /\ [][NextDims]_vars
(***************************************************************************)
(* Threads calling one store.  persist holds the read lock from its first  *)
(* step to its last; a mutating call, and the last step of load, run under *)
(* the write lock, which is free when no thread reads.                     *)
(***************************************************************************)
\* a Document and a chunk a thread saves for path p
DocOf(p) ==
    [path |-> p, hash |-> ContentHash("code"), mod_time |-> 0, chunk_ids |-> <<>>]

ChunksOf(p) ==
    ZipChunks(ChunkInfosOf(p, "code"), <<VectorAt(1)>>, 0)

\* the index after one mutating store call
Mutations(d) ==
    UNION {{save_chunks(d, ChunksOf(p)), save_document(d, DocOf(p)),
            delete_by_file(d, p)} : p \in PathSet}

\* where a file a thread holds open is found after rename(from, to)
Moved(at, from, to) ==
    IF from = to THEN at
    ELSE IF at = to THEN "gone"
    ELSE IF at = from THEN to
    ELSE at

InPersist(t) == thr[t].pc \in {"persist_create", "persist_write", "persist_rename"}

\* the threads inside a call that holds the write lock over several steps
Writers == {t \in Threads : thr[t].pc \in {"delete_chunks", "delete_document"}}

\* a read lock given out while a writer holds the lock
ReadLockIgnoringWriters == TRUE

\* RwLock::read returns once no thread holds the write lock
ReadLockFree == Writers = {}

\* RwLock::write returns once no thread holds the lock at all
WriteLockFree == readers = {} /\ Writers = {}

\* persist: self.data.read()
PersistBegin(t) ==
    /\ thr[t].pc = "idle"
    /\ ReadLockFree
    /\ thr' = [thr EXCEPT ![t].pc = "persist_create"]
    /\ readers' = readers \cup {t}
    /\ crashed' = FALSE
    /\ UNCHANGED <<data, files, last, committed, live, indexerVars>>

\* atomic_write: fs::write creates or truncates the temp file
PersistCreate(t) ==
    /\ thr[t].pc = "persist_create"
    /\ files' = fs_create(files, temp_path)
    /\ thr' = [thr EXCEPT ![t].pc = "persist_write", ![t].at = temp_path, ![t].off = 0]
    /\ UNCHANGED <<data, last, readers, committed, crashed, live, indexerVars>>

\* atomic_write: fs::write writes the next part and closes after the last
PersistWrite(t) ==
    /\ thr[t].pc = "persist_write"
    /\ LET json == Serialize(data)
           off  == thr[t].off
       IN  /\ files' = IF thr[t].at \in FilePaths
                       THEN fs_write(files, thr[t].at, off, json[off + 1])
                       ELSE files
           /\ thr' = IF off + 1 < Len(json)
                     THEN [thr EXCEPT ![t].off = off + 1]
                     ELSE [thr EXCEPT ![t].pc = "persist_rename",
                                      ![t].at = "closed", ![t].off = 0]
    /\ UNCHANGED <<data, last, readers, committed, crashed, live, indexerVars>>

\* atomic_write: fs::rename, which fails if the temp file is not there;
\* persist returns and drops the lock
PersistRename(t) ==
    /\ thr[t].pc = "persist_rename"
    /\ IF files[temp_path].exists
       THEN /\ files' = fs_rename(files, temp_path, canonical_path)
            /\ thr' = [u \in Threads |->
                          IF u = t THEN Idle
                          ELSE [thr[u] EXCEPT
                                   !.at = Moved(@, temp_path, canonical_path)]]
            /\ committed' = [some |-> TRUE, data |-> data]
            /\ last' = [op |-> "persist", ret |-> "ok"]
       ELSE /\ thr' = [thr EXCEPT ![t] = Idle]
            /\ last' = [op |-> "persist", ret |-> "err"]
            /\ UNCHANGED <<files, committed>>
    /\ readers' = readers \ {t}
    /\ UNCHANGED <<data, crashed, live, indexerVars>>

\* save_chunks, save_document or delete_by_file, under the write lock
Mutate(t) ==
    /\ thr[t].pc = "idle"
    /\ WriteLockFree
    /\ \E d \in Mutations(data) : d # data /\ data' = d
    /\ last' = [op |-> "mutate"]
    /\ crashed' = FALSE
    /\ UNCHANGED <<files, thr, readers, committed, live, indexerVars>>

\* what a call of the store returned, in short
Brief(l) == IF l.op \in {"load", "persist", "clear"} THEN <<l.op, l.ret>> ELSE <<l.op>>

\* the record kept of a load: what it returned, whether it found a file
\* and could parse it, what the memory held before, the call before it
Loaded(ret, f, before) ==
    [op |-> "load", ret |-> ret, found |-> f.exists,
     parsed |-> f.exists /\ Parses(f.bytes), before |-> before, prev |-> Brief(last)]

\* load: the canonical file is looked up, read and parsed
LoadRead(t) ==
    /\ thr[t].pc = "idle"
    /\ LET read == load_read(files[canonical_path])
       IN  IF read.install
           THEN /\ thr' = [thr EXCEPT ![t].pc = "load_install", ![t].buf = read.loaded]
                /\ UNCHANGED last
           ELSE /\ last' = Loaded(read.ret, files[canonical_path], data)
                /\ UNCHANGED thr
    /\ UNCHANGED <<data, files, readers, committed, crashed, live, indexerVars>>

\* load: self.data.write(), *data = loaded
LoadInstall(t) ==
    /\ thr[t].pc = "load_install"
    /\ WriteLockFree
    /\ data' = install(data, thr[t].buf)
    /\ thr' = [thr EXCEPT ![t] = Idle]
    /\ last' = Loaded("ok", FileOf(Serialize(thr[t].buf)), data)
    /\ UNCHANGED <<files, readers, committed, crashed, live, indexerVars>>

\* clear, under the write lock
Clear(t, io_ok) ==
    /\ thr[t].pc = "idle"
    /\ WriteLockFree
    /\ LET r == clear(data, files, io_ok)
       IN  /\ data' = r.data
           /\ files' = r.files
           /\ committed' = IF r.files[canonical_path].exists THEN committed
                           ELSE [some |-> FALSE, data |-> EmptyIndex]
           /\ last' = [op |-> "clear", ret |-> IF r.ok THEN "ok" ELSE "err",
                       removed |-> files[canonical_path].exists, held |-> data # EmptyIndex]
    /\ crashed' = FALSE
    /\ UNCHANGED <<thr, readers, live, indexerVars>>

\* the process is killed: memory, locks and open files are gone, the files
\* stay as they are, and a new process starts with GobStore::new
Crash ==
    /\ live # {}
    /\ data' = EmptyIndex
    /\ thr' = [t \in Threads |-> Idle]
    /\ readers' = {}
    /\ crashed' = \E t \in live : InPersist(t)
    /\ last' = [op |-> "crash"]
    /\ UNCHANGED <<files, committed, live, indexerVars>>

\* one thread, killed at any point
InitCrash ==
    /\ tree = [p \in PathSet |-> "absent"]
    /\ data = EmptyIndex
    /\ files = NoFiles
    /\ pc = "idle"
    /\ run = NoRun
    /\ last = Env
    /\ settled = FALSE
    /\ live = {1}
    /\ thr = [t \in Threads |-> Idle]
    /\ readers = {}
    /\ committed = [some |-> FALSE, data |-> EmptyIndex]
    /\ crashed = FALSE

NextCrash ==
    \/ \E t \in live : PersistBegin(t)
    \/ \E t \in live : PersistCreate(t)
    \/ \E t \in live : PersistWrite(t)
    \/ \E t \in live : PersistRename(t)
    \/ \E t \in live : Mutate(t)
    \/ \E t \in live : LoadRead(t)
    \/ \E t \in live : LoadInstall(t)
    \/ \E t \in live, io_ok \in BOOLEAN : Clear(t, io_ok)
    \/ Crash

SpecCrash == InitCrash /\ [][NextCrash]_vars

\* the vector of a provider that answers with a number beyond f32
OverflowVector == <<Infinity, 0>>

\* save_chunks of a chunk embedded by such a provider
SaveOverflowed(t) ==
    /\ thr[t].pc = "idle"
    /\ WriteLockFree
    /\ \E p \in PathSet :
          data' = save_chunks(data, ZipChunks(ChunkInfosOf(p, "code"), <<OverflowVector>>, 0))
    /\ data' # data
    /\ last' = [op |-> "mutate"]
    /\ crashed' = FALSE
    /\ UNCHANGED <<files, thr, readers, committed, live, indexerVars>>

NextRoundTrip ==
    \/ \E t \in live : PersistBegin(t)
    \/ \E t \in live : PersistCreate(t)
    \/ \E t \in live : PersistWrite(t)
    \/ \E t \in live : PersistRename(t)
    \/ \E t \in live : Mutate(t)
    \/ \E t \in live : SaveOverflowed(t)
    \/ \E t \in live : LoadRead(t)
    \/ \E t \in live : LoadInstall(t)
    \/ \E t \in live, io_ok \in BOOLEAN : Clear(t, io_ok)

\* one caller of the store whose provider may answer beyond f32
SpecRoundTrip == InitCrash /\ [][NextRoundTrip]_vars

\* two threads, never killed
InitPersist ==
    /\ tree = [p \in PathSet |-> "absent"]
    /\ data = EmptyIndex
    /\ files = NoFiles
    /\ pc = "idle"
    /\ run = NoRun
    /\ last = Env
    /\ settled = FALSE
    /\ live = Threads
    /\ thr = [t \in Threads |-> Idle]
    /\ readers = {}
    /\ committed = [some |-> FALSE, data |-> EmptyIndex]
    /\ crashed = FALSE

NextPersist ==
    \/ \E t \in live : PersistBegin(t)
    \/ \E t \in live : PersistCreate(t)
    \/ \E t \in live : PersistWrite(t)
    \/ \E t \in live : PersistRename(t)
    \/ \E t \in live : Mutate(t)
    \/ \E t \in live : LoadRead(t)
    \/ \E t \in live : LoadInstall(t)
    \/ \E t \in live, io_ok \in BOOLEAN : Clear(t, io_ok)

SpecPersist == InitPersist /\ [][NextPersist]_vars

(***************************************************************************)
(* delete_by_file step by step, next to calls that read under the lock     *)
(***************************************************************************)
\* the calls that take the read lock, read, and give it back
ReadOps == {"search", "get_document", "list_documents", "get_all_chunks", "stats"}

\* delete_by_file: self.data.write(), the ids to remove are collected
DeleteBegin(t, p) ==
    /\ thr[t].pc = "idle"
    /\ WriteLockFree
    /\ thr' = [thr EXCEPT ![t].pc = "delete_chunks", ![t].path = p, ![t].buf = data]
    /\ UNCHANGED <<data, files, last, readers, committed, crashed, live, indexerVars>>

\* delete_by_file: data.chunks.remove(&id) for the next collected id, in
\* the order the map's iteration gave them
DeleteChunk(t) ==
    /\ thr[t].pc = "delete_chunks"
    /\ LET left == {id \in DOMAIN data.chunks : data.chunks[id].file_path = thr[t].path}
       IN  IF left = {}
           THEN /\ thr' = [thr EXCEPT ![t].pc = "delete_document"]
                /\ UNCHANGED data
           ELSE /\ \E id \in left : data' = [data EXCEPT !.chunks = MapDrop(@, {id})]
                /\ UNCHANGED thr
    /\ UNCHANGED <<files, last, readers, committed, crashed, live, indexerVars>>

\* delete_by_file: data.documents.remove(file_path), return, lock dropped
DeleteDocument(t) ==
    /\ thr[t].pc = "delete_document"
    /\ data' = [data EXCEPT !.documents = MapDrop(@, {thr[t].path})]
    /\ last' = [op |-> "delete_by_file", path |-> thr[t].path]
    /\ thr' = [thr EXCEPT ![t] = Idle]
    /\ UNCHANGED <<files, readers, committed, crashed, live, indexerVars>>

\* a reading call is made
ReadBegin(t, op) ==
    /\ thr[t].pc = "idle"
    /\ thr' = [thr EXCEPT ![t].pc = "read_wait", ![t].op = op]
    /\ UNCHANGED <<data, files, last, readers, committed, crashed, live, indexerVars>>

\* the reading call gets the read lock, reads, returns
ReadDone(t) ==
    /\ thr[t].pc = "read_wait"
    /\ ReadLockFree
    /\ last' = [op |-> "read", call |-> thr[t].op, view |-> data]
    /\ thr' = [thr EXCEPT ![t] = Idle]
    /\ UNCHANGED <<data, files, readers, committed, crashed, live, indexerVars>>

\* save_chunks or save_document, under the write lock
Save(t) ==
    /\ thr[t].pc = "idle"
    /\ WriteLockFree
    /\ \E p \in PathSet :
       \E d \in {save_chunks(data, ZipChunks(ChunkInfosOf(p, tree[p]),
                                              <<VectorAt(1), VectorAt(2)>>, 0)),
                 save_document(data, [DocOf(p) EXCEPT
                      !.chunk_ids = [i \in 1..Len(ChunkInfosOf(p, tree[p])) |->
                                        ChunkInfosOf(p, tree[p])[i].id]])} :
          d # data /\ data' = d
    /\ last' = [op |-> "save"]
    /\ UNCHANGED <<files, thr, readers, committed, crashed, live, indexerVars>>

\* two threads on a store that holds both files indexed
InitDelete ==
    /\ tree = [p \in PathSet |-> IF p = "a.rs" THEN "prose" ELSE "code"]
    /\ data = index_file(index_file(EmptyIndex, "a.rs", "prose", FALSE,
                                    <<[ok |-> TRUE, vectors |-> <<VectorAt(1), VectorAt(2)>>]>>,
                                    0).data,
                         "b.rs", "code", FALSE,
                         <<[ok |-> TRUE, vectors |-> <<VectorAt(1)>>]>>, 0).data
    /\ files = NoFiles
    /\ pc = "idle"
    /\ run = NoRun
    /\ last = Env
    /\ settled = FALSE
    /\ live = Threads
    /\ thr = [t \in Threads |-> Idle]
    /\ readers = {}
    /\ committed = [some |-> FALSE, data |-> EmptyIndex]
    /\ crashed = FALSE

\* one thread writes (delete_by_file, save_chunks, save_document) while the
\* other reads and persists
WritingThreads == {1}

ReadingThreads == {2}

NextDelete ==
    \/ \E t \in WritingThreads, p \in PathSet : DeleteBegin(t, p)
    \/ \E t \in WritingThreads : DeleteChunk(t)
    \/ \E t \in WritingThreads : DeleteDocument(t)
    \/ \E t \in WritingThreads : Save(t)
    \/ \E t \in ReadingThreads, op \in ReadOps : ReadBegin(t, op)
    \/ \E t \in ReadingThreads : ReadDone(t)
    \/ \E t \in ReadingThreads : PersistBegin(t)
    \/ \E t \in ReadingThreads : PersistCreate(t)
    \/ \E t \in ReadingThreads : PersistWrite(t)
    \/ \E t \in ReadingThreads : PersistRename(t)

SpecDelete == InitDelete /\ [][NextDelete]_vars

(***************************************************************************)
(* index_file step by step: its store calls are separate critical sections *)
(* with the embedding request between them.  thr[t].path is the file,      *)
(* thr[t].call the frame of the call, thr[t].buf the index in memory when  *)
(* the call was made.                                                      *)
(***************************************************************************)
\* index d after path p holding text was indexed with every vector answered
Indexed(d, p, text) ==
    LET infos == ChunkInfosOf(p, text)
    IN  index_file(d, p, text, FALSE,
                   [b \in 1..NumBatches(Len(infos)) |->
                       [ok |-> TRUE,
                        vectors |-> [i \in 1..Len(Batch(infos, b)) |-> VectorAt(i)]]],
                   0).data

\* index_file returns
Return(t, ret, cause, count) ==
    [thr EXCEPT ![t].pc = "index_done", ![t].call.ret = ret,
                ![t].call.cause = cause, ![t].call.count = count]

Returned(t, ret, count) ==
    [op |-> "index_file_returned", path |-> thr[t].path, ret |-> ret, count |-> count]

\* fs::read_to_string, hash_content
IndexRead(t) ==
    /\ thr[t].pc = "index_read"
    /\ IF tree[thr[t].path] \notin Texts
       THEN /\ thr' = Return(t, "err", "read", 0)
            /\ last' = Returned(t, "err", 0)
       ELSE /\ thr' = [thr EXCEPT ![t].pc = IF thr[t].call.force THEN "index_delete"
                                            ELSE "index_check",
                                  ![t].call.held = tree[thr[t].path]]
            /\ UNCHANGED last
    /\ UNCHANGED <<data, files, readers, committed, crashed, live, indexerVars>>

\* store.get_document and the hash test
IndexCheck(t) ==
    /\ thr[t].pc = "index_check"
    /\ ReadLockFree
    /\ IF unchanged(data, thr[t].path, ContentHash(thr[t].call.held))
       THEN /\ thr' = Return(t, "skipped", "", 0)
            /\ last' = Returned(t, "skipped", 0)
       ELSE /\ thr' = [thr EXCEPT ![t].pc = "index_delete"]
            /\ UNCHANGED last
    /\ UNCHANGED <<data, files, readers, committed, crashed, live, indexerVars>>

\* store.delete_by_file, extract_symbols, chunk_by_symbols
IndexDelete(t) ==
    /\ thr[t].pc = "index_delete"
    /\ WriteLockFree
    /\ data' = delete_by_file(data, thr[t].path)
    /\ IF Len(ChunkInfosOf(thr[t].path, thr[t].call.held)) = 0
       THEN /\ thr' = Return(t, "indexed", "", 0)
            /\ last' = Returned(t, "indexed", 0)
       ELSE /\ thr' = [thr EXCEPT ![t].pc = "index_embed"]
            /\ UNCHANGED last
    /\ UNCHANGED <<files, readers, committed, crashed, live, indexerVars>>

\* embed_chunks, the provider answering by the plan of the call
IndexEmbed(t) ==
    /\ thr[t].pc = "index_embed"
    /\ LET embedded == embed_chunks(ChunkInfosOf(thr[t].path, thr[t].call.held),
                                    thr[t].call.plan, 0)
       IN  IF ~embedded.ok
           THEN /\ thr' = Return(t, "err", "embed", 0)
                /\ last' = Returned(t, "err", 0)
           ELSE /\ thr' = [thr EXCEPT ![t].pc = "index_save_chunks",
                                      ![t].call.chunks = embedded.chunks]
                /\ UNCHANGED last
    /\ UNCHANGED <<data, files, readers, committed, crashed, live, indexerVars>>

\* store.save_chunks
IndexSaveChunks(t) ==
    /\ thr[t].pc = "index_save_chunks"
    /\ WriteLockFree
    /\ data' = save_chunks(data, thr[t].call.chunks)
    /\ thr' = [thr EXCEPT ![t].pc = "index_save_document"]
    /\ UNCHANGED <<files, last, readers, committed, crashed, live, indexerVars>>

\* store.save_document, Ok(Some(chunk_count))
IndexSaveDocument(t) ==
    /\ thr[t].pc = "index_save_document"
    /\ WriteLockFree
    /\ LET chunks == thr[t].call.chunks
       IN  /\ data' = save_document(data,
                         [path      |-> thr[t].path,
                          hash      |-> ContentHash(thr[t].call.held),
                          mod_time  |-> 0,
                          chunk_ids |-> [i \in 1..Len(chunks) |-> chunks[i].id]])
           /\ thr' = Return(t, "indexed", "", Len(chunks))
           /\ last' = Returned(t, "indexed", Len(chunks))
    /\ UNCHANGED <<files, readers, committed, crashed, live, indexerVars>>

\* the indexes the calls can find in memory: nothing, both files indexed
\* with the content they hold now, or with another content
StartIndexes ==
    {EmptyIndex,
     Indexed(Indexed(EmptyIndex, "a.rs", "code"), "b.rs", "code"),
     Indexed(Indexed(EmptyIndex, "a.rs", "prose"), "b.rs", "code")}

\* an index_file call just made by thread t on path p
CallOf(d, p, force, plan) ==
    [Idle EXCEPT !.pc = "index_read", !.path = p, !.buf = d,
                 !.call = [NoCall EXCEPT !.force = force, !.plan = plan]]

\* two index_file calls on different paths, made at the same time
InitIndex ==
    /\ tree \in [PathSet -> FileStates]
    /\ \A p \in PathSet : tree[p] \in Holds(p) \ {"absent"}
    /\ data \in StartIndexes
    /\ files = NoFiles
    /\ pc = "idle"
    /\ run = NoRun
    /\ last = Env
    /\ settled = FALSE
    /\ live = Threads
    /\ \E f1 \in BOOLEAN, f2 \in BOOLEAN :
       \E plan1 \in PlansOf(Paths[1], tree[Paths[1]]) :
       \E plan2 \in PlansOf(Paths[2], tree[Paths[2]]) :
          thr = [t \in Threads |->
                    IF t = 1 THEN CallOf(data, Paths[1], f1, plan1)
                    ELSE CallOf(data, Paths[2], f2, plan2)]
    /\ readers = {}
    /\ committed = [some |-> FALSE, data |-> EmptyIndex]
    /\ crashed = FALSE

NextIndex ==
    \/ \E t \in live : IndexRead(t)
    \/ \E t \in live : IndexCheck(t)
    \/ \E t \in live : IndexDelete(t)
    \/ \E t \in live : IndexEmbed(t)
    \/ \E t \in live : IndexSaveChunks(t)
    \/ \E t \in live : IndexSaveDocument(t)

SpecIndex == InitIndex /\ [][NextIndex]_vars

\* two index_file calls on the same path, made at the same time: the call
\* of thread 1 has read the file when it held the code text, the file was
\* changed since, and the call of thread 2 is about to read it
InitSamePath ==
    /\ tree \in [PathSet -> FileStates]
    /\ tree["a.rs"] \in {"prose", "blank"}
    /\ tree["b.rs"] = "absent"
    /\ data \in {EmptyIndex, Indexed(EmptyIndex, "a.rs", "code"),
                 Indexed(EmptyIndex, "a.rs", "prose")}
    /\ files = NoFiles
    /\ pc = "idle"
    /\ run = NoRun
    /\ last = Env
    /\ settled = FALSE
    /\ live = Threads
    /\ \E f1 \in BOOLEAN, f2 \in BOOLEAN :
       \E plan1 \in PlansOf("a.rs", "code") :
       \E plan2 \in PlansOf("a.rs", tree["a.rs"]) :
          thr = [t \in Threads |->
                    IF t = 1
                    THEN [CallOf(data, "a.rs", f1, plan1) EXCEPT
                             !.pc = IF f1 THEN "index_delete" ELSE "index_check",
                             !.call.held = "code"]
                    ELSE CallOf(data, "a.rs", f2, plan2)]
    /\ readers = {}
    /\ committed = [some |-> FALSE, data |-> EmptyIndex]
    /\ crashed = FALSE

SpecSamePath == InitSamePath /\ [][NextIndex]_vars

(***************************************************************************)
(* index_file on a file of more chunks than one batch holds                *)
(***************************************************************************)
\* the answers the provider gives to the two batches of the long file
BatchPlans ==
    {<<first, second>> :
        first \in {[ok |-> FALSE, vectors |-> <<>>]} \cup
                  {[ok |-> TRUE, vectors |-> [i \in 1..k |-> VectorAt(i)]] :
                      k \in {0, 1, BATCH_SIZE - 1, BATCH_SIZE}},
        second \in ProviderAnswers(1)}

\* a.rs holds the long text, and is indexed with this content, with
\* another, or not at all; each of two callers is about to call
\* index_file once
InitBatches ==
    /\ tree = [p \in PathSet |-> IF p = "a.rs" THEN "long" ELSE "absent"]
    /\ data \in {EmptyIndex, Indexed(EmptyIndex, "a.rs", "code"),
                 Indexed(EmptyIndex, "a.rs", "long")}
    /\ files = NoFiles
    /\ pc = "idle"
    /\ run = NoRun
    /\ last = Env
    /\ settled = FALSE
    /\ live = Threads
    /\ thr = [t \in Threads |-> Idle]
    /\ readers = {}
    /\ committed = [some |-> FALSE, data |-> EmptyIndex]
    /\ crashed = FALSE

\* caller t calls index_file on a.rs, the calls one after the other
BatchFileCall(t, force, plan) ==
    /\ t \in live
    /\ \A u \in live : t <= u
    /\ LET r == index_file(data, "a.rs", tree["a.rs"], force, plan, 0)
       IN  /\ data' = r.data
           /\ last' = FileCall(data, "a.rs", tree["a.rs"], force, plan, r, 0)
    /\ live' = live \ {t}
    /\ UNCHANGED <<tree, files, pc, run, settled, thr, readers, committed, crashed>>

NextBatches ==
    \E t \in Threads, force \in BOOLEAN, plan \in BatchPlans : BatchFileCall(t, force, plan)

SpecBatches == InitBatches /\ [][NextBatches]_vars

(***************************************************************************)
(* The store called directly: save_chunks and search                       *)
(***************************************************************************)
MaxLimit == 3

Limits == 0..MaxLimit

\* vectors of two dimensions with norms 1 and 5, the zero vector, and
\* vectors of other lengths
Vectors == {<<1, 0>>, <<0, 1>>, <<3, 4>>, <<0, 0>>}

QueryVectors == Vectors \cup {<<-1, 0>>, <<>>, <<1, 0, 0>>}

ChunkIds == {"a", "b", "c"}

\* a chunk of identity id with vector v
ChunkWith(id, v) ==
    [ id |-> id, file_path |-> "a.rs", start_line |-> 1, end_line |-> 1,
      content |-> id, vector |-> v, hash |-> hash_content(id),
      updated_at |-> 0, chunk_type |-> "Block" ]

\* the lists a save_chunks call is given: up to two chunks, the same
\* identity twice included
ChunkLists ==
    LET cs == {ChunkWith(id, v) : id \in ChunkIds, v \in {<<1, 0>>, <<3, 4>>, <<0, 0>>}}
    IN  {<<>>} \cup {<<c>> : c \in cs} \cup {<<c1, c2>> : c1 \in cs, c2 \in cs}

SaveChunksCall(cs) ==
    /\ data' = save_chunks(data, cs)
    /\ last' = [op |-> "save_chunks", list |-> cs]
    /\ UNCHANGED <<files, indexerVars, threadVars>>

StoreSearchCall(query_vector, limit) ==
    /\ \E order \in Orders(DOMAIN data.chunks) :
          last' = [op |-> "store_search", query |-> query_vector, limit |-> limit,
                   results |-> search(data, query_vector, limit, order)]
    /\ UNCHANGED <<data, files, indexerVars, threadVars>>

NextStore ==
    \/ \E cs \in ChunkLists : SaveChunksCall(cs)
    \/ \E q \in QueryVectors, limit \in Limits : StoreSearchCall(q, limit)

SpecStore == Init /\ [][NextStore]_vars

(***************************************************************************)
(* Reciprocal rank fusion (search/hybrid.rs)                               *)
(***************************************************************************)
MaxListLen == 3

\* the values of k the fusion is run with
HybridKs == {0, 1, 60}

\* Fused scores are kept as whole numbers of 1/RrfScale(k), the product of
\* the denominators k + rank + 1 of every rank a list can have.
RECURSIVE RrfScaleFrom(_, _)
RrfScaleFrom(k, rank) ==
    IF rank >= MaxListLen THEN 1 ELSE (k + rank + 1) * RrfScaleFrom(k, rank + 1)

RrfScale(k) == RrfScaleFrom(k, 0)

\* 1.0 / (k + rank as f32 + 1.0)
RrfTerm(k, rank) == RrfScale(k) \div (k + rank + 1)

\* the ids of the results of the lists
IdsOf(result_lists) ==
    UNION {{result_lists[j][i].chunk.id : i \in 1..Len(result_lists[j])} :
              j \in 1..Len(result_lists)}

\* scores[id] once both loops are through: one term for every place the id
\* has in a list
FusedScore(k, result_lists, id) ==
    SumOf([j \in 1..Len(result_lists) |->
              SumOf([i \in 1..Len(result_lists[j]) |->
                        IF result_lists[j][i].chunk.id = id THEN RrfTerm(k, i - 1)
                        ELSE 0])])

\* scores[id] when a later term replaces the earlier ones
LastScore(k, result_lists, id) ==
    LET j == CHOOSE j \in 1..Len(result_lists) :
                /\ \E i \in 1..Len(result_lists[j]) : result_lists[j][i].chunk.id = id
                /\ \A m \in (j + 1)..Len(result_lists) :
                      \A i \in 1..Len(result_lists[m]) : result_lists[m][i].chunk.id # id
        i == CHOOSE i \in 1..Len(result_lists[j]) :
                /\ result_lists[j][i].chunk.id = id
                /\ \A n \in (i + 1)..Len(result_lists[j]) : result_lists[j][n].chunk.id # id
    IN  RrfTerm(k, i - 1)

\* chunk_map[id] when a later chunk replaces the one kept
LatestChunk(result_lists, id) ==
    LET j == CHOOSE j \in 1..Len(result_lists) :
                /\ \E i \in 1..Len(result_lists[j]) : result_lists[j][i].chunk.id = id
                /\ \A m \in (j + 1)..Len(result_lists) :
                      \A i \in 1..Len(result_lists[m]) : result_lists[m][i].chunk.id # id
        i == CHOOSE i \in 1..Len(result_lists[j]) : result_lists[j][i].chunk.id = id
    IN  result_lists[j][i].chunk

\* chunk_map[id]: entry().or_insert keeps the chunk of the first place the
\* id has, the lists taken in turn
FirstChunk(result_lists, id) ==
    LET j == CHOOSE j \in 1..Len(result_lists) :
                /\ \E i \in 1..Len(result_lists[j]) : result_lists[j][i].chunk.id = id
                /\ \A m \in 1..(j - 1) :
                      \A i \in 1..Len(result_lists[m]) : result_lists[m][i].chunk.id # id
        i == CHOOSE i \in 1..Len(result_lists[j]) :
                /\ result_lists[j][i].chunk.id = id
                /\ \A n \in 1..(i - 1) : result_lists[j][n].chunk.id # id
    IN  result_lists[j][i].chunk

\* the fusion with scores[id] assigned instead of added to
reciprocal_rank_fusion_assigning(k, limit, result_lists, order) ==
    Truncate(SortByScore([n \in 1..Len(order) |->
                 SearchResult(FirstChunk(result_lists, order[n]),
                              LastScore(k, result_lists, order[n]))]),
             limit)

\* reciprocal_rank_fusion, the score map iterated in `order`
reciprocal_rank_fusion(k, limit, result_lists, order) ==
    Truncate(SortByScore([n \in 1..Len(order) |->
                 SearchResult(FirstChunk(result_lists, order[n]),
                              FusedScore(k, result_lists, order[n]))]),
             limit)

\* ranked lists: sequences of ids with no id twice
RankedLists ==
    UNION {{l \in [1..n -> ChunkIds] : \A i, j \in 1..n : l[i] = l[j] => i = j} :
              n \in 0..MaxListLen}

\* the j-th result list made of ranked list l: its chunks carry the
\* list's number as vector, their scores fall with the rank
ResultList(l, j) ==
    [i \in 1..Len(l) |-> SearchResult(ChunkWith(l[i], <<j, 0>>), 10 - i)]

\* the arguments of a call: k, limit and one or two ranked lists
FuseArguments ==
    {[op |-> "rrf_call", k |-> k, limit |-> limit, lists |-> ls] :
        k \in HybridKs, limit \in Limits,
        ls \in {<<l1>> : l1 \in RankedLists}
                \cup {<<l1, l2>> : l1 \in RankedLists, l2 \in RankedLists}}

\* a call of reciprocal_rank_fusion is about to be made
InitFuse ==
    /\ tree = [p \in PathSet |-> "absent"]
    /\ data = EmptyIndex
    /\ files = NoFiles
    /\ pc = "idle"
    /\ run = NoRun
    /\ last \in FuseArguments
    /\ settled = FALSE
    /\ live = {}
    /\ thr = [t \in Threads |-> Idle]
    /\ readers = {}
    /\ committed = [some |-> FALSE, data |-> EmptyIndex]
    /\ crashed = FALSE

FuseCall ==
    /\ last.op = "rrf_call"
    /\ LET result_lists == [j \in 1..Len(last.lists) |-> ResultList(last.lists[j], j)]
       IN  \E order \in Orders(IdsOf(result_lists)) :
              last' = [op |-> "rrf", k |-> last.k, limit |-> last.limit,
                       lists |-> last.lists,
                       results |-> reciprocal_rank_fusion(last.k, last.limit,
                                                          result_lists, order)]
    /\ UNCHANGED <<data, files, indexerVars, threadVars>>

NextFuse == FuseCall

SpecFuse == InitFuse /\ [][NextFuse]_vars

(***************************************************************************)
(* Searcher (search/searcher.rs) and text search (search/hybrid.rs)        *)
(***************************************************************************)
UpperCase == "ABCDEFGHIJKLMNOPQRSTUVWXYZ"

LowerCase == "abcdefghijklmnopqrstuvwxyz"

\* the lower-case letter of each upper-case letter
ToLower ==
    [c \in {SubSeq(UpperCase, i, i) : i \in 1..Len(UpperCase)} |->
        LET i == CHOOSE n \in 1..Len(UpperCase) : SubSeq(UpperCase, n, n) = c
        IN  SubSeq(LowerCase, i, i)]

\* char::to_lowercase on ASCII
LowerChar(c) == IF c \in DOMAIN ToLower THEN ToLower[c] ELSE c

\* str::to_lowercase
RECURSIVE to_lowercase(_)
to_lowercase(s) ==
    IF Len(s) = 0 THEN s
    ELSE LowerChar(SubSeq(s, 1, 1)) \o to_lowercase(SubSeq(s, 2, Len(s)))

IsWhitespace(c) == c \in {" ", "\n", "\t"}

\* str::split_whitespace: the maximal runs of characters that are no white
\* space; word is the run being read
RECURSIVE SplitFrom(_, _)
SplitFrom(s, word) ==
    IF Len(s) = 0 THEN (IF Len(word) = 0 THEN <<>> ELSE <<word>>)
    ELSE IF IsWhitespace(SubSeq(s, 1, 1))
         THEN (IF Len(word) = 0 THEN <<>> ELSE <<word>>)
              \o SplitFrom(SubSeq(s, 2, Len(s)), "")
         ELSE SplitFrom(SubSeq(s, 2, Len(s)), word \o SubSeq(s, 1, 1))

split_whitespace(s) == SplitFrom(s, "")

\* str::contains
Contains(hay, needle) ==
    \E i \in 1..(Len(hay) - Len(needle) + 1) : SubSeq(hay, i, i + Len(needle) - 1) = needle

\* text scores are kept in units of 1/TextScale; the queries of the model
\* have one, two, three or four words, so that the division is exact
TextScale == 12

\* the words of the query that text_search looks for
QueryWords(query) ==
    SelectSeq(split_whitespace(to_lowercase(query)), LAMBDA w : Len(w) >= 2)

\* the score of a chunk with no bonus for the whole query
TextScoreOfWords(chunk, query) ==
    LET words         == QueryWords(query)
        content_lower == to_lowercase(chunk.content)
        match_count   == Cardinality({i \in 1..Len(words) : Contains(content_lower, words[i])})
    IN  [matched |-> match_count > 0,
         score   |-> (TextScale * match_count) \div Len(words)]

\* the score text_search gives a chunk, zero if no word matches
TextScore(chunk, query) ==
    LET query_lower   == to_lowercase(query)
        words         == QueryWords(query)
        content_lower == to_lowercase(chunk.content)
        phrase_bonus  == IF Contains(content_lower, query_lower) THEN TextScale \div 2 ELSE 0
        match_count   == Cardinality({i \in 1..Len(words) : Contains(content_lower, words[i])})
    IN  [matched |-> match_count > 0,
         score   |-> (TextScale * match_count) \div Len(words) + phrase_bonus]

\* hybrid::text_search
text_search(chunks, query, limit) ==
    IF Len(QueryWords(query)) = 0 THEN <<>>
    ELSE LET scored == [i \in 1..Len(chunks) |-> TextScore(chunks[i], query)]
             kept   == SelectSeq([i \in 1..Len(chunks) |-> i], LAMBDA i : scored[i].matched)
         IN  Truncate(SortByScore([n \in 1..Len(kept) |->
                          SearchResult(chunks[kept[n]], scored[kept[n]].score)]),
                      limit)

\* what text_search is called with: the query, the limit, the contents of
\* up to three chunks
TextQueries == {"", "a", "AB", "zz", "ab cd", "ab  cd", "ab ab cd"}

TextContents == {"ab cd", "cd ab", "xAB", "zz ab", "q"}

TextArguments ==
    {[op |-> "text_call", query |-> query, limit |-> limit, contents |-> cs] :
        query \in TextQueries, limit \in Limits,
        cs \in UNION {[1..n -> TextContents] : n \in 0..3}}

\* the i-th chunk of a call, of content c
TextChunk(i, c) ==
    [ChunkWith(<<"a", "b", "c">>[i], <<1, 0>>) EXCEPT !.content = c]

\* a call of text_search is about to be made
InitText ==
    /\ tree = [p \in PathSet |-> "absent"]
    /\ data = EmptyIndex
    /\ files = NoFiles
    /\ pc = "idle"
    /\ run = NoRun
    /\ last \in TextArguments
    /\ settled = FALSE
    /\ live = {}
    /\ thr = [t \in Threads |-> Idle]
    /\ readers = {}
    /\ committed = [some |-> FALSE, data |-> EmptyIndex]
    /\ crashed = FALSE

TextCall ==
    /\ last.op = "text_call"
    /\ last' = [op |-> "text", query |-> last.query, limit |-> last.limit,
                contents |-> last.contents,
                results |-> text_search([i \in 1..Len(last.contents) |->
                                            TextChunk(i, last.contents[i])],
                                        last.query, last.limit)]
    /\ UNCHANGED <<data, files, indexerVars, threadVars>>

NextText == TextCall

SpecText == InitText /\ [][NextText]_vars

\* What the chunker is called with: the overlap it was made with, up to
\* three lines and up to two symbols.
Overlaps == {overlap_chars, AssumedLineLen}

ChunkLines == {"", "  ", "ab", "abcde"}

MaxFileLines == 3

ChunkSymbols ==
    {[kind |-> kind, start |-> r[1], end |-> r[2]] :
        kind \in {"function", "module"},
        r \in {<<1, 1>>, <<1, 2>>, <<2, 2>>, <<2, 3>>, <<3, 3>>, <<3, 4>>, <<2, 1>>}}

\* the n-th symbol of a call
NamedSymbol(sym, n) ==
    [name |-> <<"f", "g">>[n], kind |-> sym.kind, start |-> sym.start, end |-> sym.end]

ChunkArguments ==
    {[op |-> "chunk_call", overlap |-> o, lines |-> ls, symbols |-> syms] :
        o \in Overlaps,
        ls \in UNION {[1..n -> ChunkLines] : n \in 0..MaxFileLines},
        syms \in UNION {{[n \in 1..k |-> NamedSymbol(ss[n], n)] : ss \in [1..k -> ChunkSymbols]} :
                          k \in 0..2}}

\* a call of the chunker is about to be made
InitChunk ==
    /\ tree = [p \in PathSet |-> "absent"]
    /\ data = EmptyIndex
    /\ files = NoFiles
    /\ pc = "idle"
    /\ run = NoRun
    /\ last \in ChunkArguments
    /\ settled = FALSE
    /\ live = {}
    /\ thr = [t \in Threads |-> Idle]
    /\ readers = {}
    /\ committed = [some |-> FALSE, data |-> EmptyIndex]
    /\ crashed = FALSE

\* Chunker::chunk_by_window on the lines of the call
WindowCall ==
    /\ last.op = "chunk_call"
    /\ last.symbols = <<>>
    /\ last' = IF WindowReturns(max_chars, last.overlap, last.lines)
               THEN [op |-> "window", overlap |-> last.overlap, lines |-> last.lines,
                     symbols |-> last.symbols,
                     chunks |-> chunk_by_window(max_chars, last.overlap, "a.rs", last.lines)]
               ELSE [op |-> "window_hangs", overlap |-> last.overlap, lines |-> last.lines,
                     symbols |-> last.symbols, chunks |-> <<>>]
    /\ UNCHANGED <<data, files, indexerVars, threadVars>>

\* Chunker::chunk_by_symbols on the lines and symbols of the call
SymbolsCall ==
    /\ last.op = "chunk_call"
    /\ last' = IF SymbolsReturns(max_chars, last.overlap, "a.rs", last.lines, last.symbols)
               THEN [op |-> "symbols", overlap |-> last.overlap, lines |-> last.lines,
                     symbols |-> last.symbols,
                     chunks |-> chunk_by_symbols(max_chars, last.overlap, "a.rs",
                                                 last.lines, last.symbols)]
               ELSE [op |-> "symbols_hangs", overlap |-> last.overlap, lines |-> last.lines,
                     symbols |-> last.symbols, chunks |-> <<>>]
    /\ UNCHANGED <<data, files, indexerVars, threadVars>>

NextChunk ==
    \/ WindowCall
    \/ SymbolsCall

SpecChunk == InitChunk /\ [][NextChunk]_vars

\* str::starts_with
StartsWith(name, prefix) ==
    Len(prefix) <= Len(name) /\ SubSeq(name, 1, Len(prefix)) = prefix

\* OllamaEmbedder::health_check.  `answer` is what GET /api/tags comes to:
\* no connection, a status that is not a success, a body that is not the
\* expected JSON, or the names of the models listed.
health_check(model, answer) ==
    IF answer.reach = "unreachable" THEN [ok |-> FALSE, error |-> "Cannot connect to Ollama"]
    ELSE IF answer.reach = "bad_status" THEN [ok |-> FALSE, error |-> "Ollama health check failed"]
    ELSE IF answer.reach = "malformed" THEN [ok |-> FALSE, error |-> "error decoding response body"]
    ELSE LET model_available ==
                 \E i \in 1..Len(answer.names) :
                     \/ StartsWith(answer.names[i], model)
                     \/ answer.names[i] = model \o ":latest"
         IN  IF ~model_available THEN [ok |-> FALSE, error |-> "Model not installed"]
             ELSE [ok |-> TRUE, error |-> ""]

\* what health_check is called with: the configured model and the answer
\* of the provider, which lists up to two models
ModelNames == {"m", "m:latest", "m2", "m2:latest", "other"}

HealthAnswers ==
    {[reach |-> r, names |-> <<>>] : r \in {"unreachable", "bad_status", "malformed"}}
    \cup {[reach |-> "ok", names |-> ns] : ns \in UNION {[1..n -> ModelNames] : n \in 0..2}}

HealthArguments ==
    {[op |-> "health_call", model |-> model, answer |-> answer] :
        model \in {"m", "m2", "none"}, answer \in HealthAnswers}

\* a call of health_check is about to be made
InitHealth ==
    /\ tree = [p \in PathSet |-> "absent"]
    /\ data = EmptyIndex
    /\ files = NoFiles
    /\ pc = "idle"
    /\ run = NoRun
    /\ last \in HealthArguments
    /\ settled = FALSE
    /\ live = {}
    /\ thr = [t \in Threads |-> Idle]
    /\ readers = {}
    /\ committed = [some |-> FALSE, data |-> EmptyIndex]
    /\ crashed = FALSE

HealthCall ==
    /\ last.op = "health_call"
    /\ LET r == health_check(last.model, last.answer)
       IN  last' = [op |-> "health", model |-> last.model, answer |-> last.answer,
                    ret |-> IF r.ok THEN "ok" ELSE "err", error |-> r.error]
    /\ UNCHANGED <<data, files, indexerVars, threadVars>>

NextHealth == HealthCall

SpecHealth == InitHealth /\ [][NextHealth]_vars

\* OllamaEmbedder::embed: one text is sent; the first vector of the answer,
\* an error if there is none
embed(text, answer) ==
    LET results == embed_batch(<<text>>, answer)
    IN  IF ~results.ok THEN [ok |-> FALSE, vector |-> <<>>]
        ELSE IF Len(results.vectors) = 0 THEN [ok |-> FALSE, vector |-> <<>>]
        ELSE [ok |-> TRUE, vector |-> results.vectors[1]]

\* Searcher.hybrid_k
hybrid_k == 60

\* what a query is given: the texts, the limits, the provider's answers
Queries == {"x", "fn f", "Fn zz", "lines"}

QueryLimits == 0..2

\* Searcher::search on the index d and the canonical file f: the outcome
\* and the index in memory afterwards
searcher_search(d, f, query, limit, answer, order) ==
    LET loaded == load(d, f)
        query_vector == embed(query, answer)
    IN  IF ~loaded.ok THEN [ok |-> FALSE, data |-> loaded.data, results |-> <<>>]
        ELSE IF ~query_vector.ok THEN [ok |-> FALSE, data |-> loaded.data, results |-> <<>>]
        ELSE [ok |-> TRUE, data |-> loaded.data,
              results |-> search(loaded.data, query_vector.vector, limit, order)]

\* search_hybrid handing on all it fetched when fusion is disabled
searcher_search_hybrid_untruncated(d, f, hybrid_enabled, query, limit, answer, order, fused_order) ==
    LET loaded == load(d, f)
        query_vector == embed(query, answer)
    IN  IF ~loaded.ok \/ ~query_vector.ok
        THEN [ok |-> FALSE, data |-> loaded.data, results |-> <<>>]
        ELSE [ok |-> TRUE, data |-> loaded.data,
              results |-> search(loaded.data, query_vector.vector, limit * 2, order)]

\* Searcher::search_hybrid; order is the order in which the chunk map is
\* iterated, by search and then by get_all_chunks, fused_order chooses the
\* order of the fused scores
searcher_search_hybrid(d, f, hybrid_enabled, query, limit, answer, order, fused_order) ==
    LET loaded == load(d, f)
        query_vector == embed(query, answer)
        vector_results == search(loaded.data, query_vector.vector, limit * 2, order)
        text_results == text_search(get_all_chunks(loaded.data, order), query, limit * 2)
        result_lists == <<vector_results, text_results>>
        ids == IdsOf(result_lists)
    IN  IF ~loaded.ok THEN [ok |-> FALSE, data |-> loaded.data, results |-> <<>>]
        ELSE IF ~query_vector.ok THEN [ok |-> FALSE, data |-> loaded.data, results |-> <<>>]
        ELSE IF ~hybrid_enabled
             THEN [ok |-> TRUE, data |-> loaded.data, results |-> Truncate(vector_results, limit)]
        ELSE [ok |-> TRUE, data |-> loaded.data,
              results |-> reciprocal_rank_fusion(hybrid_k, limit, result_lists,
                              SelectSeq(fused_order, LAMBDA id : id \in ids))]

\* Searcher::smart_search
searcher_smart_search(d, f, hybrid_enabled, query, limit, answer, order, fused_order) ==
    IF hybrid_enabled
    THEN searcher_search_hybrid(d, f, hybrid_enabled, query, limit, answer,
                                order, fused_order)
    ELSE searcher_search(d, f, query, limit, answer, order)

\* the record kept of a query
Queried(op, hybrid_enabled, query, limit, r) ==
    [op |-> op, hybrid |-> hybrid_enabled, query |-> query, limit |-> limit,
     ret |-> IF r.ok THEN "ok" ELSE "err", results |-> r.results]

\* the orders the chunk map of the index a query loads can be iterated in
LoadedOrders == Orders(DOMAIN load(data, files[canonical_path]).data.chunks)

\* The calls of the Searcher. Each caller makes one query, its last call.
Search(t, query, limit, answer) ==
    /\ thr[t].pc = "idle"
    /\ WriteLockFree
    /\ \E order \in LoadedOrders :
          LET r == searcher_search(data, files[canonical_path], query, limit, answer, order)
          IN  /\ data' = r.data
              /\ last' = Queried("search", FALSE, query, limit, r)
    /\ live' = live \ {t}
    /\ UNCHANGED <<files, thr, readers, committed, crashed, indexerVars>>

SearchHybrid(t, hybrid_enabled, query, limit, answer) ==
    /\ thr[t].pc = "idle"
    /\ WriteLockFree
    /\ \E order, fused_order \in LoadedOrders :
          LET r == searcher_search_hybrid(data, files[canonical_path], hybrid_enabled,
                                          query, limit, answer, order, fused_order)
          IN  /\ data' = r.data
              /\ last' = Queried("search_hybrid", hybrid_enabled, query, limit, r)
    /\ live' = live \ {t}
    /\ UNCHANGED <<files, thr, readers, committed, crashed, indexerVars>>

SmartSearch(t, hybrid_enabled, query, limit, answer) ==
    /\ thr[t].pc = "idle"
    /\ WriteLockFree
    /\ \E order, fused_order \in LoadedOrders :
          LET r == searcher_smart_search(data, files[canonical_path], hybrid_enabled,
                                         query, limit, answer, order, fused_order)
          IN  /\ data' = r.data
              /\ last' = Queried("smart_search", hybrid_enabled, query, limit, r)
    /\ live' = live \ {t}
    /\ UNCHANGED <<files, thr, readers, committed, crashed, indexerVars>>

\* a call of the Searcher
SearcherCall ==
    \E t \in live, query \in Queries, limit \in QueryLimits, answer \in ProviderAnswers(1) :
        \/ Search(t, query, limit, answer)
        \/ \E hybrid_enabled \in BOOLEAN :
              \/ SearchHybrid(t, hybrid_enabled, query, limit, answer)
              \/ SmartSearch(t, hybrid_enabled, query, limit, answer)

NextSearch ==
    \/ \E t \in live : PersistBegin(t)
    \/ \E t \in live : PersistCreate(t)
    \/ \E t \in live : PersistWrite(t)
    \/ \E t \in live : PersistRename(t)
    \/ \E t \in live : Mutate(t)
    \/ \E t \in live, query \in Queries, limit \in QueryLimits, answer \in ProviderAnswers(1) :
          Search(t, query, limit, answer)
    \/ \E t \in live, hybrid_enabled \in BOOLEAN, query \in Queries, limit \in QueryLimits,
          answer \in ProviderAnswers(1) :
          SearchHybrid(t, hybrid_enabled, query, limit, answer)
    \/ \E t \in live, hybrid_enabled \in BOOLEAN, query \in Queries, limit \in QueryLimits,
          answer \in ProviderAnswers(1) :
          SmartSearch(t, hybrid_enabled, query, limit, answer)

\* one caller that writes to the store, persists it and queries it
SpecSearch == InitCrash /\ [][NextSearch]_vars

(***************************************************************************)
(* Properties of the indexer                                               *)
(***************************************************************************)
\* the chunks of index d whose owning file is p
Owned(d, p) ==
    [id \in {i \in DOMAIN d.chunks : d.chunks[i].file_path = p} |-> d.chunks[id]]

\* chunk c was made from chunk info `info` (vector and time aside)
MadeFrom(c, info) ==
    /\ c.id = info.id
    /\ c.file_path = info.file_path
    /\ c.start_line = info.start_line
    /\ c.end_line = info.end_line
    /\ c.content = info.content
    /\ c.hash = info.hash
    /\ c.chunk_type = info.chunk_type

\* C1: index_file with force=false on a path whose stored Document has the
\* hash of the content read returns Ok(None), calls neither the embedder
\* nor a mutating store operation, and leaves the index as it was.
C1_UnchangedFileIsSkipped ==
    [][ (last'.op = "index_file" /\ ~last'.force /\ last'.had = "same")
          => /\ last'.ret = "skipped"
             /\ last'.embeds = 0
             /\ last'.writes = 0
             /\ data' = data ]_vars

C1_Witness ==
    /\ last.op = "index_file"
    /\ ~last.force
    /\ last.had = "same"
    /\ last.ret = "skipped"
    /\ Owned(data, last.path) # EmptyMap

C3_SecondRunSkipsEveryFile ==
    (last.op = "index_all" /\ last.ret = "ok" /\ ~last.force /\ last.run.rerun)
      => /\ last.run.files_processed = 0
         /\ last.run.chunks_created = 0
         /\ last.run.files_skipped = Len(last.run.files)

\* C4: after index_file succeeded on a path whose content differs from the
\* indexed one, every chunk stored for the path is listed in the path's
\* Document and was made from the new content.
C4_NoStaleFragments ==
    [][ (last'.op = "index_file" /\ last'.ret = "indexed" /\ last'.had = "stale")
          => LET p     == last'.path
                 infos == ChunkInfosOf(p, last'.held)
             IN  \A id \in DOMAIN data'.chunks :
                    data'.chunks[id].file_path = p
                      => /\ p \in DOMAIN data'.documents
                         /\ id \in Range(data'.documents[p].chunk_ids)
                         /\ \E i \in 1..Len(infos) :
                               MadeFrom(data'.chunks[id], infos[i]) ]_vars

C4_Witness ==
    /\ last.op = "index_file"
    /\ last.ret = "indexed"
    /\ last.had = "stale"
    /\ last.count > 0

\* C5: every identity a Document lists is the key of a stored chunk.
C5_DocumentChunksExist ==
    \A p \in DOMAIN data.documents :
       \A i \in 1..Len(data.documents[p].chunk_ids) :
          data.documents[p].chunk_ids[i] \in DOMAIN data.chunks

\* an embedding failure on one path while another path's Document lists chunks
C5_Witness ==
    /\ last.op = "index_file"
    /\ last.ret = "err"
    /\ last.cause = "embed"
    /\ last.had # "none"
    /\ \E p \in DOMAIN data.documents : Len(data.documents[p].chunk_ids) > 0

\* the paths among files whose index_file call ended as outcome o
RECURSIVE PathsWith(_, _, _)
PathsWith(paths, outcomes, o) ==
    IF Len(paths) = 0 \/ Len(outcomes) = 0 THEN <<>>
    ELSE (IF Head(outcomes) = o THEN <<Head(paths)>> ELSE <<>>)
         \o PathsWith(Tail(paths), Tail(outcomes), o)

\* C6: index_all calls index_file for every enumerated file in order,
\* whatever failed before; on return processed + skipped + errors is the
\* number of files and every failure left one error naming its path.
C6_BatchNeverShortCircuits ==
    (last.op = "index_all" /\ last.ret = "ok")
      => LET r      == last.run
             failed == PathsWith(r.files, r.outcomes, "err")
         IN  /\ r.trace = <<"load">>
                          \o [i \in 1..Len(r.files) |-> "index_file " \o r.files[i]]
                          \o <<"persist">>
             /\ r.files_processed + r.files_skipped + Len(r.errors) = Len(r.files)
             /\ Len(r.errors) = Len(failed)
             /\ \A k \in 1..Len(r.errors) :
                   r.errors[k] \in {failed[k] \o ": " \o c : c \in {"read", "embed"}}

\* the first file failed and the second was indexed all the same
C6_Witness ==
    /\ last.op = "index_all"
    /\ last.ret = "ok"
    /\ last.run.outcomes = <<"err", "indexed">>

\* C7: index_all persists once, after the last index_file and never between
\* two files, also when files failed; when the load fails it returns the
\* error with nothing indexed and nothing persisted.
C7_PersistOnceAtEnd ==
    [][ /\ (pc = "index_all" /\ pc' = "index_all") => files' = files
        /\ (pc = "idle" /\ pc' = "index_all") => load(data, files.canon).ok
        /\ (pc = "index_all" /\ pc' = "idle")
             => /\ run.i = Len(run.files) + 1
                /\ last'.op = "index_all"
                /\ last'.run.trace =
                      <<"load">>
                      \o [i \in 1..Len(run.files) |-> "index_file " \o run.files[i]]
                      \o <<"persist">>
                /\ last'.ret = "ok" => files'.canon = FileOf(Serialize(data'))
                /\ data' = data
        /\ (pc = "idle" /\ last'.op = "index_all")
             => /\ ~load(data, files.canon).ok
                /\ last'.ret = "err"
                /\ last'.run.trace = <<"load">>
                /\ data' = data
                /\ files' = files ]_vars

\* a batch in which a file failed, persisted at its end
C7_Witness ==
    /\ last.op = "index_all"
    /\ last.ret = "ok"
    /\ Len(last.run.errors) > 0
    /\ Len(last.run.files) = 2
    /\ files.canon = FileOf(Serialize(data))
    /\ data.documents # EmptyMap

\* C8: prune_deleted removes the Document and the chunks of every indexed
\* path the scan no longer returns, counts those paths, persists once if
\* the count is positive and not otherwise, and leaves the rest alone.
C8_PruneRemovesExactlyTheDeleted ==
    [][ last'.op = "prune_deleted"
          => LET gone == {p \in DOMAIN data.documents : tree[p] = "absent"}
             IN  /\ data'.documents = MapDrop(data.documents, gone)
                 /\ data'.chunks =
                       MapDrop(data.chunks,
                               {id \in DOMAIN data.chunks :
                                   data.chunks[id].file_path \in gone})
                 /\ last'.pruned = Cardinality(gone)
                 /\ last'.persists = IF gone = {} THEN 0 ELSE 1
                 /\ (gone = {} => files' = files /\ last'.ret = "ok")
                 /\ (gone # {} /\ last'.ret = "ok")
                       => files'.canon = FileOf(Serialize(data')) ]_vars

\* one path pruned with its chunks, another path's chunks kept
C8_Witness ==
    /\ last.op = "prune_deleted"
    /\ last.ret = "ok"
    /\ last.pruned = 1
    /\ data.chunks # EmptyMap
    /\ files.canon = FileOf(Serialize(data))
(***************************************************************************)
(* Properties of the snapshot file                                         *)
(***************************************************************************)
\* the bytes are the whole serialization of an index
Complete(bytes) == Parses(bytes) /\ bytes = Serialize(Deserialize(bytes))

\* C9: whenever the process is killed during a persist, the canonical file
\* is still the snapshot the last completed persist wrote (or absent if
\* there was none), and a load on a new store returns Ok with that index.
C9_CrashKeepsCommittedSnapshot ==
    /\ files.canon = IF committed.some THEN FileOf(Serialize(committed.data))
                     ELSE NoFile
    /\ crashed => load(EmptyIndex, files.canon) = [ok |-> TRUE, data |-> committed.data]
    /\ (crashed /\ last.op = "load") => (last.ret = "ok" /\ data = committed.data)

\* killed in the middle of the temp file's write, then loaded again
C9_Witness ==
    /\ crashed
    /\ last.op = "load"
    /\ committed.some
    /\ committed.data.chunks # EmptyMap
    /\ data = committed.data
    /\ files.tmp.exists
    /\ Len(files.tmp.bytes) = 1

\* C10 as claimed: under every interleaving of store calls, two persist
\* calls at once included, the canonical file is absent or the whole
\* serialization of an index.
C10_CanonicalFileNeverTorn ==
    files.canon.exists => Complete(files.canon.bytes)

(***************************************************************************)
(* Properties of the store under concurrent calls                          *)
(***************************************************************************)
\* what index d holds for path p: its chunks and its Document
Of(d, p) ==
    [chunks    |-> Owned(d, p),
     documents |-> IF p \in DOMAIN d.documents THEN <<d.documents[p]>> ELSE <<>>]

\* view shows path p neither as index b had it nor as delete_by_file leaves it
Torn(view, b, p) == Of(view, p) # Of(b, p) /\ Of(view, p) # Of(delete_by_file(b, p), p)

\* no delete_by_file in progress has left d torn
NoTornView(d) ==
    \A u \in Threads :
       thr[u].pc \in {"delete_chunks", "delete_document"} => ~Torn(d, thr[u].buf, thr[u].path)

\* C11: no step in which a call reads under the lock (a reading call, or
\* persist writing a part of the snapshot) sees the path of a delete_by_file
\* in progress with some of its chunks removed, or its chunks removed and
\* its Document not; and what a finished delete_by_file leaves is what it
\* does in one step.
C11_DeleteByFileIsAtomic ==
    [][ /\ \A t \in Threads :
             (thr[t].pc \in {"read_wait", "persist_write"} /\ thr'[t] # thr[t])
               => NoTornView(data)
        /\ \A t \in Threads :
             (thr[t].pc = "delete_document" /\ thr'[t].pc = "idle")
               => data' = delete_by_file(thr[t].buf, thr[t].path) ]_vars

\* a search is waiting for the lock while a delete_by_file has removed one
\* of the two chunks of a.rs and not yet its Document
C11_Witness ==
    /\ \E t \in Threads : thr[t].pc = "read_wait" /\ thr[t].op = "search"
    /\ \E u \in Threads :
          /\ thr[u].pc = "delete_chunks"
          /\ thr[u].path = "a.rs"
          /\ Cardinality(DOMAIN Owned(thr[u].buf, "a.rs")) = 2
          /\ Cardinality(DOMAIN Owned(data, "a.rs")) = 1
          /\ "a.rs" \in DOMAIN data.documents
          /\ Torn(data, thr[u].buf, "a.rs")

\* index_file run from start to end for the call of thread t, on index d
AloneOn(d, t) ==
    index_file(d, thr[t].path, tree[thr[t].path], thr[t].call.force,
               thr[t].call.plan, 0)

\* C12: once two index_file calls on different paths, run at the same
\* time, have both returned, the index is the one left by running them one
\* after the other, each call returned what it returns when run alone, and
\* what the index holds for a path is what that path's call alone leaves.
C12_DifferentPathsCommute ==
    (\A t \in Threads : thr[t].pc = "index_done")
      => LET d0 == thr[1].buf
         IN  /\ thr[1].path # thr[2].path
             /\ data = AloneOn(AloneOn(d0, 1).data, 2).data
             /\ data = AloneOn(AloneOn(d0, 2).data, 1).data
             /\ \A t \in Threads :
                   /\ thr[t].call.ret = AloneOn(d0, t).ret
                   /\ thr[t].call.count = AloneOn(d0, t).count
                   /\ Of(data, thr[t].path) = Of(AloneOn(d0, t).data, thr[t].path)

\* both calls replaced a stale version of their file
C12_Witness ==
    /\ \A t \in Threads :
          /\ thr[t].pc = "index_done"
          /\ thr[t].call.ret = "indexed"
          /\ thr[t].call.count > 0
          /\ thr[t].call.force
    /\ Cardinality(DOMAIN Owned(thr[1].buf, "a.rs")) = 2
    /\ Cardinality(DOMAIN Owned(data, "a.rs")) = 1
    /\ Cardinality(DOMAIN Owned(data, "b.rs")) = 1

(***************************************************************************)
(* Properties of save_chunks and search                                    *)
(***************************************************************************)
\* the last chunk of list cs with identity id
LastWith(cs, id) ==
    cs[CHOOSE i \in 1..Len(cs) :
          cs[i].id = id /\ \A j \in (i + 1)..Len(cs) : cs[j].id # id]

\* C18: a save_chunks call leaves, under each identity of its list, the
\* last chunk of the list with that identity, and every other identity as
\* it was; the map holds one chunk per identity.  Holding for every call,
\* it holds for every sequence of calls.
C18_SaveChunksIsUpsert ==
    [][ last'.op = "save_chunks"
          => LET cs  == last'.list
                 ids == {cs[i].id : i \in 1..Len(cs)}
             IN  /\ DOMAIN data'.chunks = DOMAIN data.chunks \cup ids
                 /\ \A id \in ids : data'.chunks[id] = LastWith(cs, id)
                 /\ \A id \in DOMAIN data.chunks \ ids : data'.chunks[id] = data.chunks[id]
                 /\ \A id \in DOMAIN data'.chunks : data'.chunks[id].id = id
                 /\ data'.documents = data.documents ]_vars

\* a list that writes one identity twice, over a chunk stored before
C18_Witness ==
    /\ last.op = "save_chunks"
    /\ Len(last.list) = 2
    /\ last.list[1].id = last.list[2].id
    /\ last.list[1] # last.list[2]
    /\ data.chunks[last.list[1].id] = last.list[2]
    /\ Cardinality(DOMAIN data.chunks) = 3

\* C19: search returns min(limit, number of stored chunks) results, each a
\* stored chunk with its cosine score, no chunk twice, scores never
\* increasing, and no chunk left out scores more than one returned.
C19_SearchReturnsTopLimit ==
    last.op = "store_search"
      => LET rs   == last.results
             got  == {rs[i].chunk.id : i \in 1..Len(rs)}
             s(c) == cosine_similarity(last.query, c.vector)
         IN  /\ Len(rs) = Min(last.limit, Cardinality(DOMAIN data.chunks))
             /\ \A i \in 1..Len(rs) :
                   /\ rs[i].chunk.id \in DOMAIN data.chunks
                   /\ rs[i].chunk = data.chunks[rs[i].chunk.id]
                   /\ rs[i].score = s(rs[i].chunk)
             /\ \A i, j \in 1..Len(rs) : rs[i].chunk.id = rs[j].chunk.id => i = j
             /\ \A i \in 1..(Len(rs) - 1) : rs[i].score >= rs[i + 1].score
             /\ \A id \in DOMAIN data.chunks \ got :
                   \A i \in 1..Len(rs) : s(data.chunks[id]) <= rs[i].score

\* three chunks of three different scores, the best two asked for
C19_Witness ==
    /\ last.op = "store_search"
    /\ last.limit = 2
    /\ Cardinality(DOMAIN data.chunks) = 3
    /\ Len(last.results) = 2
    /\ last.results[1].score > last.results[2].score
    /\ \E id \in DOMAIN data.chunks :
          /\ \A i \in 1..2 : last.results[i].chunk.id # id
          /\ cosine_similarity(last.query, data.chunks[id].vector) < last.results[2].score

(***************************************************************************)
(* Properties of the fusion                                                *)
(***************************************************************************)
\* the place of id in the sequence of ids l, 0 if it has none
PlaceIn(l, id) ==
    IF \E i \in 1..Len(l) : l[i] = id THEN CHOOSE i \in 1..Len(l) : l[i] = id ELSE 0

ResultIds(rs) == [i \in 1..Len(rs) |-> rs[i].chunk.id]

\* C20: fusing two ranked lists, a fragment x found in both comes before
\* every fragment y found in one list only, at a rank of that list no
\* better than x's rank in it: if y is among the results, x is, and
\* earlier.  For A = [a, b], B = [b, c] the first result is b.
C20_FoundInBothOutranks ==
    (last.op = "rrf" /\ Len(last.lists) = 2)
      => LET A   == last.lists[1]
             B   == last.lists[2]
             out == ResultIds(last.results)
         IN  /\ \A x \in ChunkIds, y \in ChunkIds :
                   ( /\ PlaceIn(A, x) > 0 /\ PlaceIn(B, x) > 0
                     /\ \/ (PlaceIn(A, y) >= PlaceIn(A, x) /\ PlaceIn(B, y) = 0)
                        \/ (PlaceIn(B, y) >= PlaceIn(B, x) /\ PlaceIn(A, y) = 0)
                     /\ PlaceIn(out, y) > 0 )
                   => (PlaceIn(out, x) > 0 /\ PlaceIn(out, x) < PlaceIn(out, y))
             /\ (A = <<"a", "b">> /\ B = <<"b", "c">> /\ last.limit > 0)
                   => out[1] = "b"

\* the lists of test_rrf_multiple_lists, fused with k = 60
C20_Witness ==
    /\ last.op = "rrf"
    /\ last.k = 60
    /\ last.lists = << <<"a", "b">>, <<"b", "c">> >>
    /\ ResultIds(last.results) = <<"b", "a", "c">>

(***************************************************************************)
(* Properties of load and clear                                            *)
(***************************************************************************)
\* C14 as claimed: a load that finds no snapshot file returns Ok and leaves
\* the index in memory empty, whatever was done on the store before.
C14_LoadWithoutSnapshotLeavesEmpty ==
    (last.op = "load" /\ ~last.found) => (last.ret = "ok" /\ data = EmptyIndex)

\* C15: a load that finds a file it cannot parse returns an error and
\* leaves the index in memory as it was.
C15_MalformedSnapshotIsAnError ==
    (last.op = "load" /\ last.found /\ ~last.parsed)
      => (last.ret = "err" /\ data = last.before)

\* a torn snapshot met by a load with chunks in memory
C15_Witness ==
    /\ last.op = "load"
    /\ last.found
    /\ ~last.parsed
    /\ last.ret = "err"
    /\ files.canon.exists
    /\ ~Complete(files.canon.bytes)
    /\ data.chunks # EmptyMap

\* C16 as claimed: when persist has returned Ok, a load at the same path, whatever the
\* memory holds, leaves exactly the persisted index; and every load that
\* finds the snapshot leaves the index of the last persist, with nothing
\* of what the memory held before.
C16_PersistLoadRoundTrip ==
    /\ (last.op = "persist" /\ last.ret = "ok")
         => \A d \in {EmptyIndex, data} \cup Mutations(data) :
               load(d, files.canon) = [ok |-> TRUE, data |-> data]
    /\ (last.op = "load" /\ last.found)
         => (last.ret = "ok" /\ data = committed.data)

\* C17: when clear has returned Ok the index in memory is empty and there
\* is no canonical file; a load called next returns Ok and the index stays
\* empty.
C17_ClearLeavesNothing ==
    /\ (last.op = "clear" /\ last.ret = "ok")
         => /\ data = EmptyIndex
            /\ ~files.canon.exists
            /\ load(data, files.canon) = [ok |-> TRUE, data |-> EmptyIndex]
    /\ (last.op = "load" /\ last.prev = <<"clear", "ok">>)
         => (last.ret = "ok" /\ ~last.found /\ data = EmptyIndex)

\* a clear that removed a snapshot and emptied a memory that held entries
C17_Witness ==
    /\ last.op = "clear"
    /\ last.ret = "ok"
    /\ last.removed
    /\ last.held

(***************************************************************************)
(* Properties of the Searcher                                              *)
(***************************************************************************)
\* C13 as claimed: a call of search, search_hybrid or smart_search leaves
\* the chunks and documents in memory and the files on disk as they were,
\* also when the memory holds changes that have not been persisted.
C13_QueriesNeverWrite ==
    [][SearcherCall => (data' = data /\ files' = files)]_vars

(***************************************************************************)
(* Properties of reciprocal_rank_fusion and text_search                    *)
(***************************************************************************)
\* the fused score the claim gives id: 1/(k + r + 1) for its rank r in
\* every list that has it, in units of 1/RrfScale(k)
ClaimedScore(k, lists, id) ==
    SumOf([j \in 1..Len(lists) |->
              IF PlaceIn(lists[j], id) = 0 THEN 0
              ELSE RrfScale(k) \div (k + (PlaceIn(lists[j], id) - 1) + 1)])

\* the ids any of the lists has
Listed(lists) == {id \in ChunkIds : \E j \in 1..Len(lists) : PlaceIn(lists[j], id) > 0}

\* C21: the results of reciprocal_rank_fusion hold every listed identity
\* at most once, each with the sum of 1/(k + r + 1) over the lists that
\* have it and with the chunk of the first list that has it; they are in
\* non-increasing order of score and are the first `limit` of all listed
\* identities in such an order; one list alone comes out in its own order.
C21_FusionScoresAndOrder ==
    last.op = "rrf"
      => LET out == last.results
             ids == ResultIds(out)
         IN  /\ \A i, j \in 1..Len(out) : ids[i] = ids[j] => i = j
             /\ \A i \in 1..Len(out) :
                   /\ ids[i] \in Listed(last.lists)
                   /\ out[i].score = ClaimedScore(last.k, last.lists, ids[i])
                   /\ LET first == CHOOSE j \in 1..Len(last.lists) :
                                      /\ PlaceIn(last.lists[j], ids[i]) > 0
                                      /\ \A m \in 1..(j - 1) : PlaceIn(last.lists[m], ids[i]) = 0
                      IN  out[i].chunk = ChunkWith(ids[i], <<first, 0>>)
             /\ \A i \in 1..(Len(out) - 1) : out[i].score >= out[i + 1].score
             /\ Len(out) = Min(last.limit, Cardinality(Listed(last.lists)))
             /\ \A id \in Listed(last.lists) :
                   PlaceIn(ids, id) = 0
                     => \A i \in 1..Len(out) :
                           out[i].score >= ClaimedScore(last.k, last.lists, id)
             /\ Len(last.lists) = 1 => ids = Truncate(last.lists[1], last.limit)

\* two lists that share an identity at different ranks, fused with k = 60
\* and cut to fewer results than there are identities
C21_Witness ==
    /\ last.op = "rrf"
    /\ last.k = 60
    /\ last.lists = << <<"a", "b", "c">>, <<"c", "a">> >>
    /\ last.limit = 2
    /\ ResultIds(last.results) = <<"a", "c">>
    /\ last.results[1].score = ClaimedScore(60, last.lists, "a")

\* the place of the chunk of content number i among the results, 0 if it
\* is not there
ResultPlace(i) == PlaceIn(ResultIds(last.results), <<"a", "b", "c">>[i])

\* the chunk of content number i holds the whole query, case aside
HoldsQuery(i) == Contains(to_lowercase(last.contents[i]), to_lowercase(last.query))

\* C22: for a query with a token of two or more characters, a chunk that
\* holds the whole lower-cased query scores strictly more than every chunk
\* that does not: where the latter is among the results, the former is,
\* earlier and with a greater score.
C22_PhraseMatchRanksFirst ==
    (last.op = "text" /\ Len(QueryWords(last.query)) > 0)
      => \A i, j \in 1..Len(last.contents) :
            (HoldsQuery(i) /\ ~HoldsQuery(j) /\ ResultPlace(j) > 0)
              => /\ ResultPlace(i) > 0
                 /\ ResultPlace(i) < ResultPlace(j)
                 /\ last.results[ResultPlace(i)].score > last.results[ResultPlace(j)].score

\* the query "ab cd" on a chunk that holds it, listed last, and two that
\* hold its words only
C22_Witness ==
    /\ last.op = "text"
    /\ last.query = "ab cd"
    /\ last.contents = <<"cd ab", "zz ab", "ab cd">>
    /\ ResultIds(last.results) = <<"c", "a", "b">>

\* the tokens of the query, each once
DistinctWords(query) ==
    {QueryWords(query)[n] : n \in 1..Len(QueryWords(query))}

\* the score the claim gives the chunk of content number i
ClaimedTextScore(i) ==
    (TextScale * Cardinality({w \in DistinctWords(last.query) :
                                 Contains(to_lowercase(last.contents[i]), w)}))
        \div Len(QueryWords(last.query))
    + (IF HoldsQuery(i) THEN TextScale \div 2 ELSE 0)

\* C23 as claimed: text_search returns nothing for a query with no token
\* of two or more characters; otherwise its results are the chunks with a
\* matching token, each scored (distinct tokens found) / (tokens) plus 0.5
\* for the whole query, at most `limit` of them, in non-increasing order.
C23_TextScoreCountsDistinctTokens ==
    last.op = "text"
      => /\ Len(QueryWords(last.query)) = 0 => last.results = <<>>
         /\ Len(QueryWords(last.query)) > 0 =>
               /\ \A i \in 1..Len(last.contents) :
                     ResultPlace(i) > 0 =>
                        /\ \E w \in DistinctWords(last.query) :
                              Contains(to_lowercase(last.contents[i]), w)
                        /\ last.results[ResultPlace(i)].score = ClaimedTextScore(i)
               /\ Len(last.results) <= last.limit
               /\ \A n \in 1..(Len(last.results) - 1) :
                     last.results[n].score >= last.results[n + 1].score

(***************************************************************************)
(* Properties of the Searcher's three calls                                *)
(***************************************************************************)
\* the chunks of the index in memory
Stored == {data.chunks[id] : id \in DOMAIN data.chunks}

\* what each call can return in the present state, over the orders in
\* which the maps can be iterated
CanSearch(query, limit, answer) ==
    {searcher_search(data, files[canonical_path], query, limit, answer, order) :
        order \in LoadedOrders}

CanSearchHybrid(hybrid_enabled, query, limit, answer) ==
    {searcher_search_hybrid(data, files[canonical_path], hybrid_enabled, query, limit,
                            answer, order, fused_order) :
        order \in LoadedOrders, fused_order \in LoadedOrders}

CanSmartSearch(hybrid_enabled, query, limit, answer) ==
    {searcher_smart_search(data, files[canonical_path], hybrid_enabled, query, limit,
                           answer, order, fused_order) :
        order \in LoadedOrders, fused_order \in LoadedOrders}

\* the fusions of the first 2 x limit vector results and the first
\* 2 x limit text results on index d
CanFuse(d, query, limit, query_vector) ==
    UNION {LET lists == <<search(d, query_vector, 2 * limit, order),
                          text_search(get_all_chunks(d, order), query, 2 * limit)>>
           IN  {reciprocal_rank_fusion(hybrid_k, limit, lists, fused_order) :
                   fused_order \in Orders(IdsOf(lists))} :
           order \in Orders(DOMAIN d.chunks)}

C24_WitnessFused ==
    /\ last.op = "smart_search"
    /\ last.ret = "ok"
    /\ last.hybrid
    /\ last.limit = 1
    /\ Cardinality(DOMAIN data.chunks) = 2
    /\ Len(last.results) = 1

Excerpt(chunk) == JoinLines(SubSeq(last.lines, chunk.start_line, chunk.end_line))

\* a chunk made by chunk_by_window or split_large_chunk
IsCut(chunk) == Contains(chunk.id, ":block:") \/ Contains(chunk.id, ":split:")

\* C25 as claimed: for a file whose lines are each shorter than max_chars,
\* every chunk of chunk_by_window and every piece of a split symbol has an
\* excerpt of at most max_chars characters.
C25_ExcerptWithinBudget ==
    (last.op \in {"window", "symbols"}
       /\ \A n \in 1..Len(last.lines) : Len(last.lines[n]) < max_chars)
      => \A i \in 1..Len(last.chunks) :
            IsCut(last.chunks[i]) => Len(Excerpt(last.chunks[i])) <= max_chars

\* the symbols of the call that are of a kind chunk_by_symbols takes
Taken == SelectSeq(last.symbols, LAMBDA sym : sym.kind \in {"function", "method", "class", "struct"})

\* a symbol whose lines are in the file, not all blank, within max_chars
WellPlaced(sym) ==
    /\ 1 <= sym.start
    /\ sym.start <= sym.end
    /\ sym.start <= Len(last.lines)
    /\ \E n \in sym.start..Min(sym.end, Len(last.lines)) : last.lines[n] \notin BlankLines
    /\ Len(JoinLines(SubSeq(last.lines, sym.start, Min(sym.end, Len(last.lines))))) <= max_chars

\* C26: when the symbols of kind function, method, class or struct are N
\* (at least one), each with its lines in the file, not all blank and
\* within max_chars, and no two share a line, chunk_by_symbols returns N
\* chunks in the order of those symbols, the i-th from the symbol's start
\* line to the lesser of its end line and the file's last line, holding
\* exactly those lines; symbols of another kind add nothing.
C26_OneChunkPerSymbol ==
    ( /\ last.op = "symbols"
      /\ Len(Taken) > 0
      /\ \A n \in 1..Len(Taken) : WellPlaced(Taken[n])
      /\ \A m, n \in 1..Len(Taken) :
            m < n => (Taken[m].end < Taken[n].start \/ Taken[n].end < Taken[m].start) )
      => /\ Len(last.chunks) = Len(Taken)
         /\ \A i \in 1..Len(Taken) :
               LET chunk == last.chunks[i]
                   text  == JoinLines(SubSeq(last.lines, Taken[i].start,
                                             Min(Taken[i].end, Len(last.lines))))
               IN  /\ chunk.start_line = Taken[i].start
                   /\ chunk.end_line = Min(Taken[i].end, Len(last.lines))
                   /\ chunk.hash = hash_content(text)
                   /\ chunk.content = "File: a.rs\nSymbol: " \o Taken[i].name \o " ("
                                        \o Taken[i].kind \o ")\nLines: "
                                        \o ToString(chunk.start_line) \o "-"
                                        \o ToString(chunk.end_line) \o "\n\n" \o text

\* a function on lines 1 to 2 and a function whose end line is past the
\* end of the file
C26_Witness ==
    /\ last.op = "symbols"
    /\ Len(last.lines) = 3
    /\ Len(last.symbols) = 2
    /\ last.symbols[1].kind = "function" /\ last.symbols[1].start = 1 /\ last.symbols[1].end = 2
    /\ last.symbols[2].kind = "function" /\ last.symbols[2].start = 3 /\ last.symbols[2].end = 4
    /\ Len(last.chunks) = 2
    /\ last.chunks[2].end_line = 3
    /\ last.overlap = AssumedLineLen

\* no symbol of the call yields a chunk of its own
NoneQualifies ==
    \A n \in 1..Len(Taken) :
        \/ Taken[n].start > Len(last.lines)
        \/ SatSub(Taken[n].start, 1) >= Min(Taken[n].end, Len(last.lines))
        \/ \A m \in Taken[n].start..Min(Taken[n].end, Len(last.lines)) :
              last.lines[m] \in BlankLines

OverlapLines == last.overlap \div 80

\* every line of the file that is not blank is in a chunk
NonBlankCovered ==
    \A n \in 1..Len(last.lines) :
        last.lines[n] \notin BlankLines
          => \E i \in 1..Len(last.chunks) :
                last.chunks[i].start_line <= n /\ n <= last.chunks[i].end_line

BlankBetween(a, b) == \A n \in a..b : last.lines[n] \in BlankLines

C28_EveryChunkStoredWithItsVector ==
    [][ (last'.op = "index_file" /\ last'.ret = "indexed")
          => LET p     == last'.path
                 infos == ChunkInfosOf(p, last'.held)
                 n     == Len(infos)
             IN  /\ Cardinality(DOMAIN Owned(data', p)) = n
                 /\ last'.count = n
                 /\ last'.embeds = NumBatches(n)
                 /\ \A i \in 1..n :
                       LET b == ((i - 1) \div BATCH_SIZE) + 1
                           k == i - (b - 1) * BATCH_SIZE
                       IN  /\ infos[i].id \in DOMAIN data'.chunks
                           /\ k <= Len(last'.plan[b].vectors)
                           /\ data'.chunks[infos[i].id].vector = last'.plan[b].vectors[k]
      ]_vars

\* C29 as claimed: when the provider has answered a request for a batch
\* that is not empty with no vector, index_file returns an error and no
\* Document is saved for the path.
C29_NoVectorsIsAnError ==
    [][ ( /\ last'.op = "index_file"
          /\ last' # last
          /\ last'.embeds > 0
          /\ last'.plan[last'.embeds].ok
          /\ Len(last'.plan[last'.embeds].vectors) = 0 )
          => /\ last'.ret = "err"
             /\ get_document(data', last'.path).some = FALSE
      ]_vars

(***************************************************************************)
(* Properties of health_check                                              *)
(***************************************************************************)
\* the error health_check gives for the configured model and an answer
HealthError(model, answer) == health_check(model, answer).error

\* C30 as claimed: health_check succeeds exactly when the provider is
\* reached and lists a model named as the configured one or as the
\* configured one followed by ":latest" (a listed name that only starts
\* with the configured one does not count); a provider that is not reached
\* and a model that is not listed give two different errors.
C30_HealthCheckNeedsTheModel ==
    last.op = "health"
      => /\ last.ret = "ok"
              <=> ( /\ last.answer.reach = "ok"
                    /\ \E i \in 1..Len(last.answer.names) :
                          \/ last.answer.names[i] = last.model
                          \/ last.answer.names[i] = last.model \o ":latest" )
         /\ HealthError(last.model, [reach |-> "unreachable", names |-> <<>>])
               # HealthError("none", [reach |-> "ok", names |-> <<>>])

(***************************************************************************)
(* Properties of the stored vectors                                        *)
(***************************************************************************)
\* C31 as claimed: in every state the indexing operations reach, every
\* stored chunk has a vector of the length dimensions() gives, whatever
\* the provider returned.
C31_VectorsHaveDeclaredLength ==
    \A id \in DOMAIN data.chunks : Len(data.chunks[id].vector) = dimensions

(***************************************************************************)
(* Properties of cosine_similarity                                         *)
(***************************************************************************)
AllZero(v) == \A i \in 1..Len(v) : v[i] = 0

\* C32 as claimed: cosine_similarity is 0 for vectors of different lengths,
\* when either is empty, and when at least one of them is all zeros; for
\* vectors of equal length the two argument orders give the same score.
C32_CosineZeroCasesAndSymmetry ==
    last.op = "cosine"
      => /\ ( \/ Len(last.a) # Len(last.b)
              \/ Len(last.a) = 0 \/ Len(last.b) = 0
              \/ AllZero(last.a) \/ AllZero(last.b) ) => last.score = 0
         /\ Len(last.a) = Len(last.b)
               => last.score = cosine_similarity(last.b, last.a)

(***************************************************************************)
(* Termination of the chunker's loops                                      *)
(***************************************************************************)
\* the lines of the n-th symbol of the call, as handed to split_large_chunk
SymbolLines(n) ==
    SubSeq(last.lines, SatSub(last.symbols[n].start, 1) + 1,
           Min(last.symbols[n].end, Len(last.lines)))

\* C33 as claimed: split_large_chunk returns for every oversized symbol
\* chunk_by_symbols hands to it, also when overlap_chars / 80 >= 1.
C33_SplitTerminates ==
    last.op \in {"symbols", "symbols_hangs"}
      => \A n \in Oversized(max_chars, last.lines, last.symbols) :
            SplitReturns(max_chars, last.overlap, SymbolLines(n))

\* the cursors chunk_by_window starts its first `turns` + 1 windows at
RECURSIVE WindowStarts(_, _, _, _, _)
WindowStarts(maxChars, overlapChars, lines, start, turns) ==
    LET end  == Accumulate(lines, start, 0, maxChars)
        next == SatSub(end, overlapChars \div AssumedLineLen)
    IN  IF next >= Len(lines) \/ end >= Len(lines) \/ turns = 0 THEN <<start>>
        ELSE <<start>> \o WindowStarts(maxChars, overlapChars, lines, next, turns - 1)

\* C34 as claimed: chunk_by_window returns for every file, each window
\* starting on a later line than the one before, also when a window holds
\* no more lines than the overlap.
C34_WindowTerminates ==
    (last.op \in {"window", "window_hangs"} /\ Len(last.lines) > 0)
      => LET starts == WindowStarts(max_chars, last.overlap, last.lines, 0, Len(last.lines))
         IN  /\ \A i \in 1..(Len(starts) - 1) : starts[i] < starts[i + 1]
             /\ WindowReturns(max_chars, last.overlap, last.lines)

(***************************************************************************)
(* Linearizability of the store                                            *)
(***************************************************************************)
\* C35 as claimed: the calls of the store take effect one at a time in an
\* order that agrees with real time.  When a persist is the call that
\* completed last before a load installs, no order of the two explains a
\* memory that differs from the file, so the load installs the snapshot
\* that persist wrote, never one read before it.
C35_LoadInstallsCurrentSnapshot ==
    [][ \A t \in Threads :
          ( /\ thr[t].pc = "load_install" /\ thr'[t].pc = "idle" /\ last'.op = "load"
            /\ last.op = "persist" /\ last.ret = "ok" )
            => /\ files[canonical_path].exists
               /\ Parses(files[canonical_path].bytes)
               /\ data' = Deserialize(files[canonical_path].bytes) ]_vars

(***************************************************************************)
(* Two index_file calls on one path                                        *)
(***************************************************************************)
\* what the call of thread t stores for its path when nothing else runs
StoredBy(t) ==
    Of(index_file(EmptyIndex, thr[t].path, thr[t].call.held, TRUE,
                  thr[t].call.plan, 0).data,
       thr[t].path)

\* C36 as claimed: once two index_file calls on the same path, run at the
\* same time on different contents, have both returned Ok(Some(_)), the
\* Document and the chunks the index holds for the path are those of one
\* of the two calls, with no chunk of the other.
C36_SamePathLastWriterWins ==
    ( /\ \A t \in Threads : thr[t].pc = "index_done" /\ thr[t].call.ret = "indexed"
      /\ thr[1].path = thr[2].path
      /\ thr[1].call.held # thr[2].call.held )
      => \E t \in Threads : Of(data, thr[t].path) = StoredBy(t)

(***************************************************************************)
(* Identities of the chunks of one file                                    *)
(***************************************************************************)
\* the index after save_chunks of the chunk infos, each given a vector
StoredFrom(infos) ==
    save_chunks(EmptyIndex,
                ZipChunks(infos, [i \in 1..Len(infos) |-> VectorAt(i)], 0))

\* C37 as claimed: the chunks chunk_by_symbols returns for one file have
\* pairwise distinct ids, so that as many chunks are stored as were made.
C37_ChunkIdsAreDistinct ==
    last.op = "symbols"
      => /\ \A i, j \in 1..Len(last.chunks) :
               i # j => last.chunks[i].id # last.chunks[j].id
         /\ Cardinality(DOMAIN StoredFrom(last.chunks).chunks) = Len(last.chunks)

(***************************************************************************)
(* Failures of index_file                                                  *)
(***************************************************************************)
\* C38: when a batch of a file fails to embed, earlier batches embedded or
\* not, index_file returns an error and the index holds no chunk of the
\* path and no Document for it, so that the file does not count as
\* unchanged for a later index_file.
C38_FailedBatchSavesNothing ==
    [][ ( /\ last'.op = "index_file" /\ last' # last
          /\ last'.embeds > 0 /\ ~last'.plan[last'.embeds].ok )
          => /\ last'.ret = "err"
             /\ DOMAIN Owned(data', last'.path) = {}
             /\ ~get_document(data', last'.path).some
             /\ ~unchanged(data', last'.path, ContentHash(last'.held)) ]_vars

\* the second batch of the long file has failed after the first was
\* embedded, on a path indexed before
C38_Witness ==
    /\ last.op = "index_file"
    /\ last.held = "long"
    /\ last.ret = "err"
    /\ last.embeds = 2
    /\ last.plan[1].ok /\ Len(last.plan[1].vectors) = BATCH_SIZE
    /\ ~last.plan[2].ok
    /\ last.had = "stale"
    /\ live = {2}

\* C39 as claimed: an index_file that fails on a path indexed before
\* leaves the Document and the chunks the index held for that path as they
\* were.
C39_FailedReindexKeepsOldData ==
    [][ ( /\ last'.op = "index_file" /\ last' # last
          /\ last'.ret = "err"
          /\ last'.path \in DOMAIN data.documents )
          => Of(data', last'.path) = Of(data, last'.path) ]_vars

(***************************************************************************)
(* Determinism of search                                                   *)
(***************************************************************************)
\* C40 as claimed: a store holding the same chunks as the store searched
\* returns the same results in the same order for the same query vector
\* and limit, whatever order its chunk map hands the chunks out in.
C40_SearchIsDeterministicOnTies ==
    last.op = "store_search"
      => \A order \in Orders(DOMAIN data.chunks) :
            search(data, last.query, last.limit, order) = last.results
====
